---- MODULE Spec2Model ----
(***************************************************************************)
(* Model of the TDT transcription core: the greedy TDT decoder, the        *)
(* frame-based chunk merger, the chunk range iterator and the DP subtitle  *)
(* regrouper.                                                              *)
(***************************************************************************)
EXTENDS Integers, Sequences, FiniteSets, TLC

VARIABLES
    \* ---- TdtModel::greedy_decode (models/tdt/inference.rs)
    encoded_length,   \* T_valid, the encoder's reported effective length
    frame_index,      \* the frame pointer
    tokens,           \* Vec<TokenDuration> built so far
    target,           \* the target cell fed to the joint
    states,           \* number of times states_1/states_2 were replaced (0 = zeros)
    sym,              \* iterations of the inner label loop done at this frame
    pc,               \* "while" | "inner" | "done" | "error" | "panic"
    joint_runs,       \* history: number of decoder_joint.run calls so far
    duration_idx,     \* history: the argmax over the duration logits in the latest step
    result,           \* what greedy_decode returned: <<>> while running, <<"Ok", tokens>>
                      \* or <<"Err", error>>
    \* ---- merge_outputs / merge_two (models/tdt/merge.rs)
    chunkA, chunkB, chunkC,   \* three already-offset chunk outputs
    mAB, mBC,                 \* merge_two(A, B), merge_two(B, C)
    mLeft, mRight,            \* merge_outputs([A, B, C]), merge_two(A, merge_two(B, C))
    mpc,                      \* "idle" | "start" | "pair" | "done"
    \* ---- ChunkConfig / ChunkRangeIter (chunk.rs)
    cfg_duration, cfg_overlap,   \* ChunkConfig fields, in ticks of 1/TicksPerSec s
    len, chunk_size, step_size, position,   \* ChunkRangeIter fields (samples)
    emitted,                     \* history: the items next() has returned
    last_ret,                    \* what the latest call of next() returned
    calls,                       \* history: number of calls of next()
    cpc,                         \* "idle" | "config" | "iter"
    \* ---- Segmenter::regroup (melops/src/segment.rs)
    segmenter,                   \* the Segmenter configuration
    segments,                    \* the input segment list
    regrouped,                   \* the list regroup returned
    groups,                      \* history: the input range <<lo, hi>> behind each returned segment
    rpc,                         \* "idle" | "call" | "done"
    \* ---- AsrPipeline::transcribe_chunked (traits.rs), over the chunk iterator
    tc_chunks,                   \* the per-chunk token lists collected so far
    tc_result,                   \* the Vec<Token> returned by Ok(..)
    tc_error,                    \* <<>> or <<k, stage>>: the Err returned, raised by chunk k
    tc_log,                      \* history: <<k, offset, outcome>> of every chunk processed
    tc_pc,                       \* "idle" | "start" | "map" | "chunk" | "collected" | "ok" | "err"
    \* ---- TdtModel::to_segments (models/tdt/asr_impl.rs)
    ts_input,                    \* the TokenDuration list passed in
    ts_i,                        \* number of tokens fed to the decode stream
    ts_out,                      \* the segments collected so far / returned
    ts_log,                      \* history: what stream.step returned for each token fed
    ts_pc,                       \* "idle" | "iter" | "ok" | "err"
    \* ---- to_subtitles (melops/src/srt.rs)
    srt_segments,                \* the segment list passed in
    subtitles,                   \* the Vec<Subtitle> returned
    srt_pc,                      \* "idle" | "call" | "done"
    \* ---- TdtModel::from_repo (models/tdt/core.rs), from_pretrained (models/tdt.rs)
    repo_files,                  \* names of the files present in the model directory
    loader,                      \* "from_repo" | "from_pretrained"
    encoder_path,                \* the encoder file chosen, "" before
    decoder_path,                \* the decoder-joint file chosen, "" before
    repo_pc,                     \* "idle" | "encoder" | "decoder" | "loaded" | "error"
    \* ---- TdtModel::greedy_decode of models/tdt.rs
    lg_time_steps,               \* encoder_out.shape()[2], the columns T' of the tensor
    lg_encoder_len,              \* _encoder_len, the effective length the encoder reported
    lg_states_f32,               \* <<h, c>>: whether output_states_1 / _2 extract as f32
    lg_t,                        \* t, the frame pointer
    lg_tokens,                   \* tokens / frame_indices / durations, as one list of triples
    lg_state_h, lg_state_c,      \* 0 for zeros, else the joint run whose output they hold
    lg_last,                     \* last_emitted_token
    lg_emitted,                  \* emitted_tokens
    lg_runs,                     \* history: number of decoder_joint.run calls
    lg_pred,                     \* history: <<token_id, duration_step, t>> of the latest run
    lg_pc,                       \* "idle" | "while" | "done" | "error"
    \* ---- the argmax over the joint's logits, as both greedy decoders take it
    am_logits,                   \* the flattened logits: text logits, then duration logits
    am_token_id, am_duration_idx,        \* what models/tdt/inference.rs selects
    am_legacy_token, am_legacy_duration, \* what models/tdt.rs selects
    am_pc,                       \* "idle" | "call" | "done"
    \* ---- greedy_decode (models/tdt/inference.rs) called with encoded_length = 0
    enc_columns,                 \* columns of encoder_output along Axis(2)
    overflow_checks,             \* whether the build checks integer overflow
    \* ---- two calls of greedy_decode on one model with a deterministic joint
    call_no,                     \* 0 idle, else the number of the running call
    first_result,                \* what the first call returned
    joint_memo                   \* the joint's outputs so far, by the inputs it was run on

decVars == <<encoded_length, frame_index, tokens, target, states, sym, pc, joint_runs,
             duration_idx, result>>
mergeVars == <<chunkA, chunkB, chunkC, mAB, mBC, mLeft, mRight, mpc>>

chunkVars == <<cfg_duration, cfg_overlap, len, chunk_size, step_size, position,
               emitted, last_ret, calls, cpc>>

regroupVars == <<segmenter, segments, regrouped, groups, rpc>>

tcVars == <<tc_chunks, tc_result, tc_error, tc_log, tc_pc>>

tsVars == <<ts_input, ts_i, ts_out, ts_log, ts_pc>>

srtVars == <<srt_segments, subtitles, srt_pc>>

repoVars == <<repo_files, loader, encoder_path, decoder_path, repo_pc>>

callVars == <<call_no, first_result, joint_memo>>

zeroVars == <<enc_columns, overflow_checks>>

amVars == <<am_logits, am_token_id, am_duration_idx, am_legacy_token,
            am_legacy_duration, am_pc>>

lgVars == <<lg_time_steps, lg_encoder_len, lg_states_f32, lg_t, lg_tokens, lg_state_h,
            lg_state_c, lg_last, lg_emitted, lg_runs, lg_pred, lg_pc>>

vars == <<decVars, mergeVars, chunkVars, regroupVars, tcVars, tsVars, srtVars, repoVars,
         lgVars>>

Min(a, b) == IF a <= b THEN a ELSE b
Max(a, b) == IF a >= b THEN a ELSE b

----------------------------------------------------------------------------
(* Bounds *)
MaxEncodedLength == 3
\* merge inputs: largest frame index, and total number of tokens in A, B, C
MaxFrame == 1
MaxMergeTokens == 3
\* chunker: largest duration / overlap / audio length in ticks, and the
\* number of next() calls followed
MaxDurationTicks == 3
MaxLenTicks == 5
MaxCalls == 8
\* regrouper: number of input segments
MaxSegments == 3
\* to_segments: number of input tokens
MaxTsTokens == 3
\* longest token list of one chunk passed to merge_tokens
MaxChunkTokens == 2
\* joint runs followed in one call of the greedy_decode of models/tdt.rs
MaxLegacyRuns == 3
\* logit values are 0 .. MaxLogit
MaxLogit == 1
\* joint runs followed in a decode with encoded_length = 0
MaxZeroRuns == 3
\* most columns of an encoder output whose effective length is 0
MaxColumns == 2
\* joint runs followed in each of two successive calls
MaxRepeatRuns == 3

(* Program constants *)
MaxSymbolsPerStep == 10
SAMPLE_RATE == 16000
HopLength == 160
\* f32 seconds are represented as whole ticks of half a second
TicksPerSec == 2
Durations == <<0, 1, 2, 3, 4>>

\* The text vocabulary of the tokenizer; ids 0..vocab_size-1.
Vocab == {0}
vocab_size == Cardinality(Vocab)
blank_id == vocab_size

\* Indices the argmax over the duration logits can return: the joint's
\* duration head may be wider than the configured durations list.
DurationLogitIdx == 0 .. Len(Durations)

\* no argmax over the duration logits has been taken (yet, or in this step)
NoArgmax == -1

TokenDuration(t, f, d) == [token_id |-> t, frame_index |-> f, duration |-> d]

Segment(text, start, end) == [text |-> text, start |-> start, end |-> end]

RECURSIVE SeqsUpTo(_, _)
\* All sequences over S of length at most n
SeqsUpTo(S, n) ==
    IF n = 0 THEN {<<>>}
    ELSE LET shorter == SeqsUpTo(S, n - 1)
         IN  shorter \cup {Append(q, x) : q \in {r \in shorter : Len(r) = n - 1}, x \in S}

Range(f) == {f[i] : i \in DOMAIN f}

----------------------------------------------------------------------------
(* Idle values of the components a specification does not exercise *)

DecIdle ==
    /\ encoded_length = 0 /\ frame_index = 0 /\ tokens = <<>> /\ target = blank_id
    /\ states = 0 /\ sym = 0 /\ pc = "idle" /\ joint_runs = 0
    /\ duration_idx = NoArgmax /\ result = <<>>

MergeIdle ==
    /\ chunkA = <<>> /\ chunkB = <<>> /\ chunkC = <<>>
    /\ mAB = <<>> /\ mBC = <<>> /\ mLeft = <<>> /\ mRight = <<>> /\ mpc = "idle"

ChunkIdle ==
    /\ cfg_duration = 0 /\ cfg_overlap = 0 /\ len = 0 /\ chunk_size = 0
    /\ step_size = 0 /\ position = 0 /\ emitted = <<>> /\ last_ret = "init"
    /\ calls = 0 /\ cpc = "idle"

RegroupIdle ==
    /\ segmenter = <<>> /\ segments = <<>> /\ regrouped = <<>> /\ groups = <<>>
    /\ rpc = "idle"

TcIdle ==
    /\ tc_chunks = <<>> /\ tc_result = <<>> /\ tc_error = <<>> /\ tc_log = <<>>
    /\ tc_pc = "idle"

TsIdle ==
    /\ ts_input = <<>> /\ ts_i = 0 /\ ts_out = <<>> /\ ts_log = <<>> /\ ts_pc = "idle"

SrtIdle == srt_segments = <<>> /\ subtitles = <<>> /\ srt_pc = "idle"

RepoIdle ==
    /\ repo_files = {} /\ loader = "" /\ encoder_path = "" /\ decoder_path = ""
    /\ repo_pc = "idle"

CallIdle == call_no = 0 /\ first_result = <<>> /\ joint_memo = <<>>

ZeroIdle == enc_columns = 0 /\ overflow_checks = FALSE

AmIdle ==
    /\ am_logits = <<>> /\ am_token_id = NoArgmax /\ am_duration_idx = NoArgmax
    /\ am_legacy_token = NoArgmax /\ am_legacy_duration = NoArgmax /\ am_pc = "idle"

LgIdle ==
    /\ lg_time_steps = 0 /\ lg_encoder_len = 0 /\ lg_states_f32 = <<TRUE, TRUE>>
    /\ lg_t = 0 /\ lg_tokens = <<>> /\ lg_state_h = 0 /\ lg_state_c = 0
    /\ lg_last = 0 /\ lg_emitted = 0 /\ lg_runs = 0 /\ lg_pred = <<>>
    /\ lg_pc = "idle"

----------------------------------------------------------------------------
(* greedy_decode *)

DecInit ==
    /\ MergeIdle /\ ChunkIdle /\ RegroupIdle
    /\ TcIdle /\ TsIdle /\ SrtIdle /\ RepoIdle /\ LgIdle /\ AmIdle /\ ZeroIdle /\ CallIdle
    /\ encoded_length \in 1 .. MaxEncodedLength
    /\ frame_index = 0
    /\ tokens = <<>>
    /\ target = blank_id
    /\ states = 0
    /\ sym = 0
    /\ pc = "while"
    /\ joint_runs = 0
    /\ duration_idx = NoArgmax
    /\ result = <<>>

\* Mutant: the frame pointer wraps around instead of saturating.
AdvanceFrame_wrap(f, skip, enc_len) == (f + skip) % enc_len

\* frame_index = encoded_length.min(frame_index + skip)
AdvanceFrame(f, skip, enc_len) == Min(enc_len, f + skip)

\* Mutant: the forced advance after the label loop is missing.
ForceAdvance_none(f) == f

\* frame_index += 1 after the label loop used up max_symbols_per_step
ForceAdvance(f) == f + 1

\* while frame_index < encoded_length - 1
LoopCond(f, enc_len) == f < enc_len - 1

WhileTest ==
    /\ pc = "while"
    /\ IF LoopCond(frame_index, encoded_length)
         THEN pc' = "inner" /\ sym' = 0 /\ result' = result
         ELSE pc' = "done" /\ sym' = sym /\ result' = <<"Ok", tokens>>
    /\ UNCHANGED <<encoded_length, frame_index, tokens, target, states, joint_runs,
                   duration_idx>>
    /\ UNCHANGED <<mergeVars, chunkVars, regroupVars, tcVars, tsVars, srtVars, repoVars, lgVars, amVars, zeroVars, callVars>>

\* self.durations.len() - 1
MaxDurationIdx == Len(Durations) - 1

\* ModelError::DurationIndexOutOfBounds { index, max }
DurationIndexOutOfBounds(index) ==
    [error |-> "DurationIndexOutOfBounds", index |-> index, max |-> MaxDurationIdx]

\* self.durations.get(duration_idx) is None
NoDuration == -1

\* Mutant: the index itself is used as the skip, without looking it up.
DurationsGet_index(idx) == idx

\* self.durations.get(duration_idx).copied()
DurationsGet(idx) == IF idx + 1 \in DOMAIN Durations THEN Durations[idx + 1] ELSE NoDuration

\* One iteration of the label loop: run the joint, argmax, commit; its
\* effect on the locals of greedy_decode
InnerStepDec(token_id, idx) ==
    /\ pc = "inner"
    /\ joint_runs' = joint_runs + 1
    /\ duration_idx' = idx
    /\ IF DurationsGet(idx) = NoDuration
         THEN \* ok_or_else(..)? returns the error; the tokens are dropped
              /\ pc' = "error"
              /\ result' = <<"Err", DurationIndexOutOfBounds(idx)>>
              /\ tokens' = <<>>
              /\ UNCHANGED <<encoded_length, frame_index, target, states, sym>>
         ELSE LET skip == DurationsGet(idx)
                  f1 == AdvanceFrame(frame_index, skip, encoded_length)
              IN  /\ IF token_id # blank_id
                       THEN /\ states' = states + 1
                            /\ tokens' = Append(tokens, TokenDuration(token_id, frame_index, skip))
                            /\ target' = token_id
                       ELSE UNCHANGED <<states, tokens, target>>
                  /\ IF skip # 0
                       THEN /\ frame_index' = f1
                            /\ pc' = "while"
                            /\ sym' = sym
                       ELSE IF sym + 1 = MaxSymbolsPerStep
                              THEN /\ frame_index' = ForceAdvance(f1)
                                   /\ pc' = "while"
                                   /\ sym' = sym + 1
                              ELSE /\ frame_index' = f1
                                   /\ pc' = "inner"
                                   /\ sym' = sym + 1
                  /\ UNCHANGED <<encoded_length, result>>

\* One iteration of the label loop in a single call
InnerStep(token_id, idx) ==
    /\ InnerStepDec(token_id, idx)
    /\ UNCHANGED <<mergeVars, chunkVars, regroupVars, tcVars, tsVars, srtVars, repoVars, lgVars, amVars, zeroVars, callVars>>

\* decoder_joint.run(...) fails: the ? operator returns the error and the
\* tokens are dropped.
JointFails ==
    /\ pc = "inner"
    /\ pc' = "error"
    /\ joint_runs' = joint_runs + 1
    /\ duration_idx' = NoArgmax
    /\ result' = <<"Err", [error |-> "Ort"]>>
    /\ tokens' = <<>>
    /\ UNCHANGED <<encoded_length, frame_index, target, states, sym>>
    /\ UNCHANGED <<mergeVars, chunkVars, regroupVars, tcVars, tsVars, srtVars, repoVars, lgVars, amVars, zeroVars, callVars>>

DecNext ==
    \/ WhileTest
    \/ \E token_id \in Vocab \cup {blank_id}, idx \in DurationLogitIdx :
          InnerStep(token_id, idx)
    \/ JointFails

DecodeSpec == DecInit /\ [][DecNext]_vars

\* The decode loop runs to completion without suspension: an enabled step
\* is eventually taken.
DecodeLive == DecodeSpec /\ WF_vars(DecNext)

Returned == pc = "done"
Terminated == pc \in {"done", "error"}

\* Number of entries of a TokenDuration list carrying frame index f
CountAtFrame(L, f) == Cardinality({i \in DOMAIN L : L[i].frame_index = f})

----------------------------------------------------------------------------
(* greedy_decode called with encoded_length = 0.  The loop bound             *)
(* encoded_length - 1 is a usize subtraction: with overflow checks it        *)
(* panics, without them it wraps to usize::MAX.                              *)

ZeroInit ==
    /\ MergeIdle /\ ChunkIdle /\ RegroupIdle
    /\ TcIdle /\ TsIdle /\ SrtIdle /\ RepoIdle /\ LgIdle /\ AmIdle /\ CallIdle
    /\ encoded_length = 0
    /\ enc_columns \in 0 .. MaxColumns
    /\ overflow_checks \in BOOLEAN
    /\ frame_index = 0
    /\ tokens = <<>>
    /\ target = blank_id
    /\ states = 0
    /\ sym = 0
    /\ pc = "while"
    /\ joint_runs = 0
    /\ duration_idx = NoArgmax
    /\ result = <<>>

\* while frame_index < encoded_length - 1, then the slice of column
\* frame_index: the subtraction panics or wraps; after a wrap the condition
\* is frame_index < usize::MAX, and slice_axis panics on a column the tensor
\* does not have
ZeroWhileTest ==
    /\ pc = "while"
    /\ encoded_length = 0
    /\ IF overflow_checks \/ frame_index + 1 > enc_columns
         THEN pc' = "panic" /\ tokens' = <<>> /\ sym' = sym
         ELSE pc' = "inner" /\ tokens' = tokens /\ sym' = 0
    /\ UNCHANGED <<encoded_length, frame_index, target, states, joint_runs,
                   duration_idx, result>>
    /\ UNCHANGED <<mergeVars, chunkVars, regroupVars, tcVars, tsVars, srtVars, repoVars, lgVars, amVars, zeroVars, callVars>>

ZeroNext ==
    \/ ZeroWhileTest
    \/ /\ joint_runs < MaxZeroRuns
       /\ \/ \E token_id \in Vocab \cup {blank_id}, idx \in DurationLogitIdx :
                InnerStep(token_id, idx)
          \/ JointFails

ZeroLengthSpec == ZeroInit /\ [][ZeroNext]_vars

----------------------------------------------------------------------------
(* greedy_decode of models/tdt.rs: the vocabulary size counts the blank,    *)
(* the tensor's own column count bounds the loop, the duration index is     *)
(* used as the skip.                                                        *)

\* self.vocab_size and blank_id = vocab_size - 1
LegacyVocabSize == vocab_size + 1
LegacyBlankId == LegacyVocabSize - 1

\* encoder_len and the padded column count of the encoder output
LegacyShapes == {<<1, 1>>, <<1, 2>>, <<2, 2>>, <<2, 3>>}

LgInit ==
    /\ DecIdle /\ MergeIdle /\ ChunkIdle /\ RegroupIdle
    /\ TcIdle /\ TsIdle /\ SrtIdle /\ RepoIdle /\ AmIdle /\ ZeroIdle /\ CallIdle
    /\ \E sh \in LegacyShapes : lg_encoder_len = sh[1] /\ lg_time_steps = sh[2]
    /\ lg_states_f32 \in BOOLEAN \X BOOLEAN
    /\ lg_t = 0
    /\ lg_tokens = <<>>
    /\ lg_state_h = 0 /\ lg_state_c = 0
    /\ lg_last = LegacyBlankId
    /\ lg_emitted = 0
    /\ lg_runs = 0
    /\ lg_pred = <<>>
    /\ lg_pc = "while"

\* One iteration of while t < time_steps: run the joint, argmax, commit; its
\* effect on the locals of greedy_decode
LgStepLocals(token_id, duration_step) ==
    /\ lg_pc = "while"
    /\ lg_t < lg_time_steps
    /\ lg_runs < MaxLegacyRuns
    /\ lg_runs' = lg_runs + 1
    /\ lg_pred' = <<token_id, duration_step, lg_t>>
    /\ IF token_id # LegacyBlankId
         THEN LET emitted_tokens == lg_emitted + 1
              IN  \* if let Ok(..) = ..try_extract_tensor::<f32>()
                  /\ lg_state_h' = IF lg_states_f32[1] THEN lg_runs + 1 ELSE lg_state_h
                  /\ lg_state_c' = IF lg_states_f32[2] THEN lg_runs + 1 ELSE lg_state_c
                  /\ lg_tokens' = Append(lg_tokens,
                                         [token_id |-> token_id, frame_index |-> lg_t,
                                          duration |-> duration_step])
                  /\ lg_last' = token_id
                  /\ IF emitted_tokens >= MaxSymbolsPerStep
                       THEN lg_t' = lg_t + 1 /\ lg_emitted' = 0
                       ELSE lg_t' = lg_t /\ lg_emitted' = emitted_tokens
         ELSE /\ lg_t' = IF duration_step > 0 /\ lg_emitted > 0
                           THEN lg_t + duration_step ELSE lg_t + 1
              /\ lg_emitted' = 0
              /\ UNCHANGED <<lg_state_h, lg_state_c, lg_tokens, lg_last>>
    /\ UNCHANGED <<lg_time_steps, lg_encoder_len, lg_states_f32, lg_pc>>

\* One iteration of the loop in a single call
LgStep(token_id, duration_step) ==
    /\ LgStepLocals(token_id, duration_step)
    /\ UNCHANGED <<decVars, mergeVars, chunkVars, regroupVars, tcVars, tsVars, srtVars, repoVars, amVars, zeroVars, callVars>>

\* decoder_joint.run(..)? or the extraction of the logits fails
LgJointFails ==
    /\ lg_pc = "while"
    /\ lg_t < lg_time_steps
    /\ lg_runs < MaxLegacyRuns
    /\ lg_runs' = lg_runs + 1
    /\ lg_pred' = <<>>
    /\ lg_tokens' = <<>>
    /\ lg_pc' = "error"
    /\ UNCHANGED <<lg_time_steps, lg_encoder_len, lg_states_f32, lg_t, lg_state_h,
                   lg_state_c, lg_last, lg_emitted>>
    /\ UNCHANGED <<decVars, mergeVars, chunkVars, regroupVars, tcVars, tsVars, srtVars, repoVars, amVars, zeroVars, callVars>>

\* the loop condition is false: Ok((tokens, frame_indices, durations))
LgReturn ==
    /\ lg_pc = "while"
    /\ ~(lg_t < lg_time_steps)
    /\ lg_pc' = "done"
    /\ UNCHANGED <<lg_time_steps, lg_encoder_len, lg_states_f32, lg_t, lg_tokens,
                   lg_state_h, lg_state_c, lg_last, lg_emitted, lg_runs, lg_pred>>
    /\ UNCHANGED <<decVars, mergeVars, chunkVars, regroupVars, tcVars, tsVars, srtVars, repoVars, amVars, zeroVars, callVars>>

LgNext ==
    \/ \E token_id \in 0 .. LegacyBlankId, duration_step \in DurationLogitIdx :
          LgStep(token_id, duration_step)
    \/ LgJointFails
    \/ LgReturn

LegacySpec == LgInit /\ [][LgNext]_vars

----------------------------------------------------------------------------
(* Two successive calls of greedy_decode on the same model and the same      *)
(* encoder output.  The joint is deterministic: run again on inputs it has   *)
(* seen (frame, target, states), it answers what it answered before.         *)

\* Mutant: the recurrent states of the previous call are kept.
ZeroStates_leak(prev) == prev

\* Array3::<f32>::zeros((2, 1, 640)) at the start of a call
ZeroStates(prev) == 0

\* the joint answers out on the inputs key, consistently with its earlier
\* answers
JointAnswers(key, out) ==
    IF key \in DOMAIN joint_memo
      THEN joint_memo[key] = out /\ joint_memo' = joint_memo
      ELSE joint_memo' = joint_memo @@ (key :> out)

RepInit ==
    /\ MergeIdle /\ ChunkIdle /\ RegroupIdle
    /\ TcIdle /\ TsIdle /\ SrtIdle /\ RepoIdle /\ AmIdle /\ ZeroIdle
    /\ call_no = 1 /\ first_result = <<>> /\ joint_memo = <<>>
    /\ \/ /\ LgIdle
          /\ encoded_length \in 1 .. MaxEncodedLength
          /\ frame_index = 0 /\ tokens = <<>> /\ target = blank_id /\ states = 0
          /\ sym = 0 /\ pc = "while" /\ joint_runs = 0
          /\ duration_idx = NoArgmax /\ result = <<>>
       \/ /\ DecIdle
          /\ \E sh \in LegacyShapes : lg_encoder_len = sh[1] /\ lg_time_steps = sh[2]
          /\ lg_states_f32 \in BOOLEAN \X BOOLEAN
          /\ lg_t = 0 /\ lg_tokens = <<>> /\ lg_state_h = 0 /\ lg_state_c = 0
          /\ lg_last = LegacyBlankId /\ lg_emitted = 0 /\ lg_runs = 0
          /\ lg_pred = <<>> /\ lg_pc = "while"

\* a label-loop step of models/tdt/inference.rs with the deterministic joint
RepInner(token_id, idx) ==
    /\ joint_runs < MaxRepeatRuns
    /\ InnerStepDec(token_id, idx)
    /\ JointAnswers(<<frame_index, target, states>>, <<token_id, idx>>)
    /\ UNCHANGED <<call_no, first_result>>
    /\ UNCHANGED <<mergeVars, chunkVars, regroupVars, tcVars, tsVars, srtVars, repoVars, lgVars, amVars, zeroVars>>

\* the call returned; greedy_decode is called again on the same encoder output
RepCallAgain ==
    /\ call_no = 1
    /\ pc \in {"done", "error"}
    /\ call_no' = 2
    /\ first_result' = result
    /\ frame_index' = 0 /\ tokens' = <<>> /\ target' = blank_id
    /\ states' = ZeroStates(states)
    /\ sym' = 0 /\ pc' = "while" /\ joint_runs' = 0
    /\ duration_idx' = NoArgmax /\ result' = <<>>
    /\ UNCHANGED <<encoded_length, joint_memo>>
    /\ UNCHANGED <<mergeVars, chunkVars, regroupVars, tcVars, tsVars, srtVars, repoVars, lgVars, amVars, zeroVars>>

\* a loop iteration of models/tdt.rs with the deterministic joint
LgRepStep(token_id, duration_step) ==
    /\ LgStepLocals(token_id, duration_step)
    /\ JointAnswers(<<lg_t, lg_last, lg_state_h, lg_state_c>>, <<token_id, duration_step>>)
    /\ UNCHANGED <<call_no, first_result>>
    /\ UNCHANGED <<decVars, mergeVars, chunkVars, regroupVars, tcVars, tsVars, srtVars, repoVars, amVars, zeroVars>>

\* the call of models/tdt.rs returned; it is called again
LgCallAgain ==
    /\ call_no = 1
    /\ lg_pc = "done"
    /\ call_no' = 2
    /\ first_result' = lg_tokens
    /\ lg_t' = 0 /\ lg_tokens' = <<>>
    /\ lg_state_h' = ZeroStates(lg_state_h) /\ lg_state_c' = ZeroStates(lg_state_c)
    /\ lg_last' = LegacyBlankId /\ lg_emitted' = 0 /\ lg_runs' = 0
    /\ lg_pred' = <<>> /\ lg_pc' = "while"
    /\ UNCHANGED <<lg_time_steps, lg_encoder_len, lg_states_f32, joint_memo>>
    /\ UNCHANGED <<decVars, mergeVars, chunkVars, regroupVars, tcVars, tsVars, srtVars, repoVars, amVars, zeroVars>>

RepNext ==
    \/ WhileTest
    \/ \E token_id \in Vocab \cup {blank_id}, idx \in DurationLogitIdx :
          RepInner(token_id, idx)
    \/ RepCallAgain
    \/ \E token_id \in 0 .. LegacyBlankId, duration_step \in DurationLogitIdx :
          LgRepStep(token_id, duration_step)
    \/ LgReturn
    \/ LgCallAgain

RepeatSpec == RepInit /\ [][RepNext]_vars

----------------------------------------------------------------------------
(* The argmax over the text logits and over the duration logits.  Indices   *)
(* are 0-based as in the code; the logits are a 1-based sequence here.      *)

RECURSIVE ArgmaxFold(_, _, _)
\* ndarray-stats argmax: the running maximum is replaced only by an element
\* that compares Greater; best is the 0-based index of the running maximum
ArgmaxFold(v, i, best) ==
    IF i > Len(v) THEN best
    ELSE ArgmaxFold(v, i + 1, IF v[i] > v[best + 1] THEN i - 1 ELSE best)

\* text_logits.argmax()?, duration_logits.argmax()?
Argmax(v) == ArgmaxFold(v, 1, 0)

RECURSIVE MaxByFold(_, _, _)
\* Iterator::max_by: the running maximum is kept only while it compares
\* Greater than the next element
MaxByFold(v, i, best) ==
    IF i > Len(v) THEN best
    ELSE MaxByFold(v, i + 1, IF v[best + 1] > v[i] THEN best ELSE i - 1)

\* .iter().enumerate().max_by(..).map(|(idx, _)| idx).unwrap_or(default)
MaxBy(v, default) == IF v = <<>> THEN default ELSE MaxByFold(v, 2, 0)

\* logits_flat[0 .. blank_id + 1] and logits_flat[blank_id + 1 ..]
TextLogits(logits) == SubSeq(logits, 1, blank_id + 1)
DurationLogits(logits) == SubSeq(logits, blank_id + 2, Len(logits))

AmInit ==
    /\ DecIdle /\ MergeIdle /\ ChunkIdle /\ RegroupIdle
    /\ TcIdle /\ TsIdle /\ SrtIdle /\ RepoIdle /\ LgIdle /\ ZeroIdle /\ CallIdle
    /\ am_logits \in [1 .. blank_id + 1 + Len(Durations) -> 0 .. MaxLogit]
    /\ am_token_id = NoArgmax /\ am_duration_idx = NoArgmax
    /\ am_legacy_token = NoArgmax /\ am_legacy_duration = NoArgmax
    /\ am_pc = "call"

\* both decoders select from the same logits
ArgmaxCall ==
    /\ am_pc = "call"
    /\ am_token_id' = Argmax(TextLogits(am_logits))
    /\ am_duration_idx' = Argmax(DurationLogits(am_logits))
    /\ am_legacy_token' = MaxBy(TextLogits(am_logits), LegacyBlankId)
    /\ am_legacy_duration' =
           IF DurationLogits(am_logits) # <<>> THEN MaxBy(DurationLogits(am_logits), 0) ELSE 0
    /\ am_pc' = "done"
    /\ UNCHANGED am_logits
    /\ UNCHANGED <<decVars, mergeVars, chunkVars, regroupVars, tcVars, tsVars, srtVars, repoVars, lgVars, zeroVars, callVars>>

ArgmaxSpec == AmInit /\ [][ArgmaxCall]_vars

----------------------------------------------------------------------------
(* merge_outputs / merge_two *)

\* Mutant: an entry exactly at the cutoff is treated as overlap.
MergeTwo_strict(chunk1, chunk2) ==
    IF chunk2 = <<>> THEN chunk1
    ELSE IF chunk1 = <<>> THEN chunk2
    ELSE LET last_token == chunk1[Len(chunk1)]
             chunk1_end_frame == last_token.frame_index + last_token.duration
             pos == {i \in DOMAIN chunk2 : chunk2[i].frame_index > chunk1_end_frame}
         IN  IF pos = {} THEN chunk1
             ELSE LET i == CHOOSE k \in pos : \A j \in pos : k <= j
                  IN  chunk1 \o SubSeq(chunk2, i, Len(chunk2))

\* Mutant: the cutoff is taken from the first token of chunk1, not the last.
MergeTwo_first(chunk1, chunk2) ==
    IF chunk2 = <<>> THEN chunk1
    ELSE IF chunk1 = <<>> THEN chunk2
    ELSE LET last_token == chunk1[1]
             chunk1_end_frame == last_token.frame_index + last_token.duration
             pos == {i \in DOMAIN chunk2 : chunk2[i].frame_index >= chunk1_end_frame}
         IN  IF pos = {} THEN chunk1
             ELSE LET i == CHOOSE k \in pos : \A j \in pos : k <= j
                  IN  chunk1 \o SubSeq(chunk2, i, Len(chunk2))

\* Mutant: when no entry of chunk2 reaches the cutoff, all of chunk2 is kept.
MergeTwo_keepall(chunk1, chunk2) ==
    IF chunk2 = <<>> THEN chunk1
    ELSE IF chunk1 = <<>> THEN chunk2
    ELSE LET last_token == chunk1[Len(chunk1)]
             chunk1_end_frame == last_token.frame_index + last_token.duration
             pos == {i \in DOMAIN chunk2 : chunk2[i].frame_index >= chunk1_end_frame}
         IN  IF pos = {} THEN chunk1 \o chunk2
             ELSE LET i == CHOOSE k \in pos : \A j \in pos : k <= j
                  IN  chunk1 \o SubSeq(chunk2, i, Len(chunk2))

\* merge_two: chunk1 followed by chunk2[i..], i the first position of chunk2
\* with frame_index >= chunk1_end_frame; chunk1 alone if there is none.
MergeTwo(chunk1, chunk2) ==
    IF chunk2 = <<>> THEN chunk1
    ELSE IF chunk1 = <<>> THEN chunk2
    ELSE LET last_token == chunk1[Len(chunk1)]
             chunk1_end_frame == last_token.frame_index + last_token.duration
             pos == {i \in DOMAIN chunk2 : chunk2[i].frame_index >= chunk1_end_frame}
         IN  IF pos = {} THEN chunk1
             ELSE LET i == CHOOSE k \in pos : \A j \in pos : k <= j
                  IN  chunk1 \o SubSeq(chunk2, i, Len(chunk2))

RECURSIVE FoldMerge(_, _)
FoldMerge(acc, chunks) ==
    IF chunks = <<>> THEN acc
    ELSE FoldMerge(MergeTwo(acc, Head(chunks)), Tail(chunks))

\* merge_outputs: chunks.into_iter().fold(Vec::new(), merge_two)
MergeOutputs(chunks) == FoldMerge(<<>>, chunks)

\* Chunk outputs handed to the merger: any list of TokenDuration values
\* (merge_outputs and TokenDuration::new are public).
MergeEntries ==
    {TokenDuration(t, f, Durations[d]) : t \in Vocab, f \in 0 .. MaxFrame, d \in DOMAIN Durations}

MergeInit ==
    /\ DecIdle /\ ChunkIdle /\ RegroupIdle
    /\ TcIdle /\ TsIdle /\ SrtIdle /\ RepoIdle /\ LgIdle /\ AmIdle /\ ZeroIdle /\ CallIdle
    /\ chunkA \in SeqsUpTo(MergeEntries, MaxMergeTokens)
    /\ chunkB \in SeqsUpTo(MergeEntries, MaxMergeTokens - Len(chunkA))
    /\ chunkC \in SeqsUpTo(MergeEntries, MaxMergeTokens - Len(chunkA) - Len(chunkB))
    /\ mAB = <<>> /\ mBC = <<>> /\ mLeft = <<>> /\ mRight = <<>>
    /\ mpc = "start"

\* merge two neighbouring chunks
MergePair ==
    /\ mpc = "start"
    /\ mAB' = MergeTwo(chunkA, chunkB)
    /\ mBC' = MergeTwo(chunkB, chunkC)
    /\ mpc' = "pair"
    /\ UNCHANGED <<chunkA, chunkB, chunkC, mLeft, mRight>>
    /\ UNCHANGED <<decVars, chunkVars, regroupVars, tcVars, tsVars, srtVars, repoVars, lgVars, amVars, zeroVars, callVars>>

\* merge all three: the fold of merge_outputs, and the other bracketing
MergeAll ==
    /\ mpc = "pair"
    /\ mLeft' = MergeOutputs(<<chunkA, chunkB, chunkC>>)
    /\ mRight' = MergeTwo(chunkA, mBC)
    /\ mpc' = "done"
    /\ UNCHANGED <<chunkA, chunkB, chunkC, mAB, mBC>>
    /\ UNCHANGED <<decVars, chunkVars, regroupVars, tcVars, tsVars, srtVars, repoVars, lgVars, amVars, zeroVars, callVars>>

MergeNext == MergePair \/ MergeAll

MergeSpec == MergeInit /\ [][MergeNext]_vars

NonDecreasing(L) ==
    \A i \in 1 .. Len(L) - 1 : L[i].frame_index <= L[i + 1].frame_index

Cutoff(L) == L[Len(L)].frame_index + L[Len(L)].duration

\* The stitch rule: A, then the entries of B at or after A's cutoff
StitchRule(A, B) ==
    IF B = <<>> THEN A
    ELSE IF A = <<>> THEN B
    ELSE A \o SelectSeq(B, LAMBDA td : td.frame_index >= Cutoff(A))

----------------------------------------------------------------------------
(* ChunkConfig and ChunkRangeIter *)

\* (secs * SAMPLE_RATE as f32) as usize, for secs = ticks / TicksPerSec
SecsToSamples(ticks) == (ticks * SAMPLE_RATE) \div TicksPerSec

\* ChunkConfig::chunk_samples
ChunkSamples(duration) == SecsToSamples(duration)

\* ChunkConfig::overlap_samples
OverlapSamples(overlap) == SecsToSamples(overlap)

\* usize::saturating_sub
SaturatingSub(a, b) == IF a >= b THEN a - b ELSE 0

\* ChunkConfig::step_samples
StepSamples(duration, overlap) ==
    SaturatingSub(ChunkSamples(duration), OverlapSamples(overlap))

\* an item of the iterator: the range start..end and the offset in seconds,
\* kept as the fraction offset_num / offset_den
ChunkItem(start, end, num) ==
    [start |-> start, end |-> end, offset_num |-> num, offset_den |-> SAMPLE_RATE]

\* audio lengths: whole ticks and one sample to either side
LenSamples ==
    {n \in {SecsToSamples(k) + e : k \in 0 .. MaxLenTicks, e \in {-1, 0, 1}} : n >= 0}

ChunkInit ==
    /\ DecIdle /\ MergeIdle /\ RegroupIdle
    /\ TcIdle /\ TsIdle /\ SrtIdle /\ RepoIdle /\ LgIdle /\ AmIdle /\ ZeroIdle /\ CallIdle
    /\ cfg_duration \in 0 .. MaxDurationTicks
    /\ cfg_overlap \in 0 .. MaxDurationTicks
    /\ len \in LenSamples
    /\ chunk_size = 0 /\ step_size = 0 /\ position = 0
    /\ emitted = <<>> /\ last_ret = "init" /\ calls = 0
    /\ cpc = "config"

\* ChunkConfig::iter_ranges: its effect on the iterator
IterRangesStep ==
    /\ cpc = "config"
    /\ chunk_size' = ChunkSamples(cfg_duration)
    /\ step_size' = StepSamples(cfg_duration, cfg_overlap)
    /\ position' = 0
    /\ cpc' = "iter"
    /\ UNCHANGED <<cfg_duration, cfg_overlap, len, emitted, last_ret, calls>>

\* ChunkConfig::iter_ranges called on its own
IterRanges ==
    /\ IterRangesStep
    /\ UNCHANGED <<decVars, mergeVars, regroupVars, tcVars, tsVars, srtVars, repoVars, lgVars, amVars, zeroVars, callVars>>

\* Mutant: the iterator advances by the chunk size, ignoring the overlap.
NextPosition_chunk(pos, step, size) == pos + size

\* self.position += self.step_size
NextPosition(pos, step, size) == pos + step

\* ChunkRangeIter::next: its effect on the iterator
IterNextStep ==
    /\ cpc = "iter"
    /\ calls < MaxCalls
    /\ calls' = calls + 1
    /\ IF position = 0 /\ len <= chunk_size
         THEN /\ position' = len
              /\ emitted' = Append(emitted, ChunkItem(0, len, 0))
              /\ last_ret' = "some"
         ELSE IF position >= len
                THEN /\ last_ret' = "none"
                     /\ UNCHANGED <<position, emitted>>
                ELSE LET start == position
                         end == Min(start + chunk_size, len)
                     IN  /\ position' = NextPosition(position, step_size, chunk_size)
                         /\ emitted' = Append(emitted, ChunkItem(start, end, start))
                         /\ last_ret' = "some"
    /\ UNCHANGED <<cfg_duration, cfg_overlap, len, chunk_size, step_size, cpc>>

\* ChunkRangeIter::next called on its own
IterNext ==
    /\ IterNextStep
    /\ UNCHANGED <<decVars, mergeVars, regroupVars, tcVars, tsVars, srtVars, repoVars, lgVars, amVars, zeroVars, callVars>>

\* f32::ceil of a / b for a >= 0, b > 0
CeilDiv(a, b) == (a + b - 1) \div b

\* ChunkConfig::step_sec, in samples: (duration - overlap).max(1.0)
StepSec(duration, overlap) == Max(SecsToSamples(duration) - SecsToSamples(overlap), SAMPLE_RATE)

\* estimate_chunk_count for total_duration_sec = total / SAMPLE_RATE
EstimateChunkCount(total, duration, overlap) ==
    IF total <= SecsToSamples(duration) THEN 1
    ELSE CeilDiv(total - SecsToSamples(duration), StepSec(duration, overlap)) + 1

\* MelSpectrogram::TDT.win_length
WinLength == 400

\* no frame count: audio.len() - win_length underflows the usize (a panic
\* with overflow checks, a wrapped-around count without)
NoFrames == -1

\* stft: num_frames = (audio.len() - win_length) / hop_length + 1
NumFrames(audio_len) ==
    IF audio_len >= WinLength THEN (audio_len - WinLength) \div HopLength + 1 ELSE NoFrames

ChunkNext == IterRanges \/ IterNext

ChunkSpec == ChunkInit /\ [][ChunkNext]_vars

----------------------------------------------------------------------------
(* AsrPipeline::transcribe_chunked: the chunk iterator mapped through        *)
(* transcribe_with_offset and collected into a Result, then merge_tokens.    *)

Token(text, start, end) == [text |-> text, start |-> start, end |-> end]

\* what detokenizer.decode can return for one chunk, times relative to the
\* chunk's start, in ticks
ChunkTokenLists == {<<>>, <<Token("w", 0, 1)>>}

\* the three fallible steps of transcribe_with_offset
Stages == {"preprocess", "forward", "decode"}

\* t.start + offset_sec, t.end + offset_sec
OffsetTokens(toks, off) ==
    [i \in DOMAIN toks |-> Token(toks[i].text, toks[i].start + off, toks[i].end + off)]

\* offset_sec of an emitted item, in ticks
OffsetTicks(item) == (item.offset_num * TicksPerSec) \div item.offset_den

\* SentencePieceDetokenizer::merge_chunk_tokens; the midpoint comparison
\* t.start >= existing_end - overlap + overlap * 0.5 is taken times two
MergeChunkTokens(existing, new_tokens, overlap) ==
    IF existing = <<>> THEN new_tokens
    ELSE IF new_tokens = <<>> THEN existing
    ELSE LET existing_end == existing[Len(existing)].end
             hits == {i \in DOMAIN new_tokens :
                        2 * new_tokens[i].start >= 2 * existing_end - overlap}
             new_start_idx == IF hits = {} THEN 1
                              ELSE CHOOSE i \in hits : \A h \in hits : i <= h
         IN  existing \o SubSeq(new_tokens, new_start_idx, Len(new_tokens))

RECURSIVE FoldMergeTokens(_, _, _)
FoldMergeTokens(acc, token_chunks, overlap) ==
    IF token_chunks = <<>> THEN acc
    ELSE FoldMergeTokens(MergeChunkTokens(acc, Head(token_chunks), overlap),
                         Tail(token_chunks), overlap)

\* SentencePieceDetokenizer::merge_tokens
MergeTokens(token_chunks, overlap) == FoldMergeTokens(<<>>, token_chunks, overlap)

\* Mutant: an Err item does not stop the collect.
AfterErr_continue == "map"

\* collect::<Result<Vec<_>>>() stops at the first Err item
AfterErr == "err"

TcInit ==
    /\ DecIdle /\ MergeIdle /\ RegroupIdle /\ TsIdle /\ SrtIdle /\ RepoIdle /\ LgIdle /\ AmIdle /\ ZeroIdle /\ CallIdle
    /\ cfg_duration \in 0 .. MaxDurationTicks
    /\ cfg_overlap \in 0 .. MaxDurationTicks
    /\ len \in LenSamples
    /\ chunk_size = 0 /\ step_size = 0 /\ position = 0
    /\ emitted = <<>> /\ last_ret = "init" /\ calls = 0
    /\ cpc = "config"
    /\ tc_chunks = <<>> /\ tc_result = <<>> /\ tc_error = <<>> /\ tc_log = <<>>
    /\ tc_pc = "start"

\* config.iter_ranges(data.len())
TcIterRanges ==
    /\ tc_pc = "start"
    /\ IterRangesStep
    /\ tc_pc' = "map"
    /\ UNCHANGED <<tc_chunks, tc_result, tc_error, tc_log>>
    /\ UNCHANGED <<decVars, mergeVars, regroupVars, tsVars, srtVars, repoVars, lgVars, amVars, zeroVars, callVars>>

\* collect pulls the next item of the mapped iterator
TcPull ==
    /\ tc_pc = "map"
    /\ IterNextStep
    /\ tc_pc' = IF last_ret' = "none" THEN "collected" ELSE "chunk"
    /\ UNCHANGED <<tc_chunks, tc_result, tc_error, tc_log>>
    /\ UNCHANGED <<decVars, mergeVars, regroupVars, tsVars, srtVars, repoVars, lgVars, amVars, zeroVars, callVars>>

\* transcribe_with_offset(chunk, offset_sec) returns Ok(tokens)
TcChunkOk(toks) ==
    /\ tc_pc = "chunk"
    /\ LET item == emitted[Len(emitted)]
           out == OffsetTokens(toks, OffsetTicks(item))
       IN  /\ tc_chunks' = Append(tc_chunks, out)
           /\ tc_log' = Append(tc_log, <<Len(tc_log) + 1, item.offset_num, "ok">>)
    /\ tc_pc' = "map"
    /\ UNCHANGED <<tc_result, tc_error>>
    /\ UNCHANGED <<decVars, mergeVars, chunkVars, regroupVars, tsVars, srtVars, repoVars, lgVars, amVars, zeroVars, callVars>>

\* transcribe_with_offset(chunk, offset_sec) returns Err at one of its steps;
\* the Vec collected so far is dropped and the Err is what token_chunks? returns
TcChunkErr(stage) ==
    /\ tc_pc = "chunk"
    /\ LET item == emitted[Len(emitted)]
       IN  tc_log' = Append(tc_log, <<Len(tc_log) + 1, item.offset_num, stage>>)
    /\ tc_pc' = AfterErr
    /\ tc_error' = IF tc_error = <<>> THEN <<Len(tc_log) + 1, stage>> ELSE tc_error
    /\ tc_chunks' = IF AfterErr = "err" THEN <<>> ELSE tc_chunks
    /\ UNCHANGED tc_result
    /\ UNCHANGED <<decVars, mergeVars, chunkVars, regroupVars, tsVars, srtVars, repoVars, lgVars, amVars, zeroVars, callVars>>

\* Ok(D::merge_tokens(token_chunks?, config.overlap))
TcMerge ==
    /\ tc_pc = "collected"
    /\ tc_result' = MergeTokens(tc_chunks, cfg_overlap)
    /\ tc_pc' = "ok"
    /\ UNCHANGED <<tc_chunks, tc_error, tc_log>>
    /\ UNCHANGED <<decVars, mergeVars, chunkVars, regroupVars, tsVars, srtVars, repoVars, lgVars, amVars, zeroVars, callVars>>

TcNext ==
    \/ TcIterRanges
    \/ TcPull
    \/ \E toks \in ChunkTokenLists : TcChunkOk(toks)
    \/ \E stage \in Stages : TcChunkErr(stage)
    \/ TcMerge

TranscribeSpec == TcInit /\ [][TcNext]_vars

RECURSIVE TimedTokenLists(_)
\* token lists of one chunk in absolute time: at most n tokens of one tick,
\* in time order
TimedTokenLists(n) ==
    IF n = 0 THEN {<<>>}
    ELSE LET shorter == TimedTokenLists(n - 1)
             full == {q \in shorter : Len(q) = n - 1}
             NotBefore(q, t) == q = <<>> \/ q[Len(q)].start <= t
         IN  shorter \cup
             {Append(x[1], Token("w", x[2], x[2] + 1)) :
                 x \in {y \in full \X (0 .. MaxLenTicks) : NotBefore(y[1], y[2])}}

\* D::merge_tokens called on the token lists of two chunks
MtInit ==
    /\ DecIdle /\ MergeIdle /\ RegroupIdle /\ TsIdle /\ SrtIdle /\ RepoIdle /\ LgIdle /\ AmIdle /\ ZeroIdle /\ CallIdle
    /\ cfg_duration = 0
    /\ cfg_overlap \in 0 .. MaxDurationTicks
    /\ len = 0 /\ chunk_size = 0 /\ step_size = 0 /\ position = 0
    /\ emitted = <<>> /\ last_ret = "init" /\ calls = 0
    /\ cpc = "idle"
    /\ tc_chunks \in [1 .. 2 -> TimedTokenLists(MaxChunkTokens)]
    /\ tc_result = <<>> /\ tc_error = <<>> /\ tc_log = <<>>
    /\ tc_pc = "collected"

MergeTokensSpec == MtInit /\ [][TcMerge]_vars

----------------------------------------------------------------------------
(* TdtModel::to_segments: the tokens are fed to the tokenizer's decode       *)
(* stream one by one; what the stream answers is the tokenizer's choice.     *)

SUBSAMPLING_FACTOR == 8

\* frame_to_secs, in milliseconds: f * subsampling * hop / sample_rate
FrameToSecs(f) == (f * SUBSAMPLING_FACTOR * HopLength * 1000) \div SAMPLE_RATE

\* the texts stream.step can answer with
StepTexts == {<<"a">>, <<" ", "b">>}

\* Ok(Some(text)), Ok(None), Err(e)
StepResults ==
    {[kind |-> "some", text |-> t] : t \in StepTexts}
        \cup {[kind |-> "none", text |-> <<>>], [kind |-> "err", text |-> <<>>]}

\* token lists passed to to_segments: any order of frames, short and long skips
TsEntries == {TokenDuration(0, f, d) : f \in 0 .. MaxFrame, d \in {0, 4}}

\* Mutant: the end time is taken from the duration alone.
StepSegment_endonly(td, text) ==
    Segment(text, FrameToSecs(td.frame_index), FrameToSecs(td.duration))

\* the Segment built for Ok(Some(text))
StepSegment(td, text) ==
    Segment(text, FrameToSecs(td.frame_index), FrameToSecs(td.frame_index + td.duration))

TsInit ==
    /\ DecIdle /\ MergeIdle /\ ChunkIdle /\ RegroupIdle /\ TcIdle /\ SrtIdle /\ RepoIdle /\ LgIdle /\ AmIdle /\ ZeroIdle /\ CallIdle
    /\ ts_input \in SeqsUpTo(TsEntries, MaxTsTokens)
    /\ ts_i = 0
    /\ ts_out = <<>>
    /\ ts_log = <<>>
    /\ ts_pc = "iter"

\* one item of token_durations.iter().filter_map(output_to_segment) reaches
\* collect: the stream is stepped with the next token
TsStep(res) ==
    /\ ts_pc = "iter"
    /\ ts_i < Len(ts_input)
    /\ ts_i' = ts_i + 1
    /\ ts_log' = Append(ts_log, res)
    /\ CASE res.kind = "some" ->
              /\ ts_out' = Append(ts_out, StepSegment(ts_input[ts_i + 1], res.text))
              /\ ts_pc' = "iter"
         [] res.kind = "none" ->
              /\ ts_out' = ts_out
              /\ ts_pc' = "iter"
         [] res.kind = "err" ->
              /\ ts_out' = <<>>
              /\ ts_pc' = "err"
    /\ UNCHANGED ts_input
    /\ UNCHANGED <<decVars, mergeVars, chunkVars, regroupVars, tcVars, srtVars, repoVars, lgVars, amVars, zeroVars, callVars>>

\* the iterator is exhausted: collect returns Ok(segments)
TsCollect ==
    /\ ts_pc = "iter"
    /\ ts_i = Len(ts_input)
    /\ ts_pc' = "ok"
    /\ UNCHANGED <<ts_input, ts_i, ts_out, ts_log>>
    /\ UNCHANGED <<decVars, mergeVars, chunkVars, regroupVars, tcVars, srtVars, repoVars, lgVars, amVars, zeroVars, callVars>>

TsNext == (\E res \in StepResults : TsStep(res)) \/ TsCollect

SegmentsSpec == TsInit /\ [][TsNext]_vars

----------------------------------------------------------------------------
(* Segmenter::regroup.  Times are ticks of 1/TicksPerSec s; penalties are   *)
(* kept in units of 1/PenaltyScale, which makes every f32 constant of the   *)
(* cost function an integer.                                                *)

\* f32::INFINITY (every finite penalty is >= 0)
Infinity == -1
FloatLt(a, b) == a # Infinity /\ (b = Infinity \/ a < b)
FloatAdd(a, b) == IF a = Infinity \/ b = Infinity THEN Infinity ELSE a + b

PenaltyScale == 400 * TicksPerSec * TicksPerSec

\* str::ends_with([..]) and str::starts_with(' ') on a text kept as a
\* sequence of one-character strings
EndsWith(text, chars) == text # <<>> /\ text[Len(text)] \in chars
StartsWith(text, ch) == text # <<>> /\ text[1] = ch

Node(index, split_type, gap) == [index |-> index, split_type |-> split_type, gap |-> gap]

\* Mutant: a position with no punctuation and no word start is still offered
\* as a word boundary.
NodeNew_nofilter(index, left, right) ==
    IF EndsWith(left.text, {".", "!", "?"}) THEN Node(index, "SentenceEnd", 0)
    ELSE IF EndsWith(left.text, {",", ":", ";", "-"}) THEN Node(index, "SoftBreak", 0)
    ELSE Node(index, "WordBoundary", right.start - left.end)

\* Node::new; split_type "None" stands for the None it returns
NodeNew(index, left, right) ==
    IF EndsWith(left.text, {".", "!", "?"}) THEN Node(index, "SentenceEnd", 0)
    ELSE IF EndsWith(left.text, {",", ":", ";", "-"}) THEN Node(index, "SoftBreak", 0)
    ELSE IF StartsWith(right.text, " ")
           THEN Node(index, "WordBoundary", right.start - left.end)
           ELSE Node(index, "None", 0)

\* Node::from_segments: node 0, the valid split positions 1..n-1, node n
FromSegments(segs) ==
    LET n == Len(segs)
        cand == [i \in 1 .. n - 1 |-> NodeNew(i, segs[i], segs[i + 1])]
    IN  <<Node(0, "Boundary", 0)>>
            \o SelectSeq(cand, LAMBDA nd : nd.split_type # "None")
            \o <<Node(n, "Boundary", 0)>>

\* Node::base_penalty
BasePenalty(node) ==
    CASE node.split_type = "Boundary" -> 0
      [] node.split_type = "SentenceEnd" -> 0
      [] node.split_type = "SoftBreak" -> 40 * PenaltyScale
      [] node.split_type = "WordBoundary" ->
            IF 2 * node.gap >= 3 * TicksPerSec
              THEN 25 * PenaltyScale
              ELSE 100 * PenaltyScale - (node.gap * 50 * PenaltyScale) \div TicksPerSec

Abs(x) == IF x >= 0 THEN x ELSE -x

\* 2f32.powf(cps_diff) * 4.0 for cps_diff = p / q > 0: exact at whole
\* exponents, interpolated between them, infinite once f32 overflows
ReadingSpeedPenalty(p, q) ==
    IF p >= 126 * q THEN Infinity
    ELSE (4 * PenaltyScale * (2 ^ (p \div q)) * (q + (p % q))) \div q

\* Segmenter::segment_penalty
SegmentPenalty(cfg, duration, chars) ==
    LET dur_term == (duration - cfg.target_duration) * (duration - cfg.target_duration) * 81
        chars_term == (Abs(chars - cfg.target_chars) * PenaltyScale) \div 2
        \* cps_diff = chars / duration - target_cps, as the fraction p / duration
        p == chars * TicksPerSec - cfg.target_cps * duration
        cps_term ==
            IF duration = 0
              THEN IF chars = 0 THEN 0          \* 0/0 is NaN: NaN > 0.0 is false
                                ELSE Infinity   \* chars/0 is +inf
              ELSE IF duration < 0 \/ p <= 0 THEN 0
              ELSE ReadingSpeedPenalty(p, duration)
    IN  FloatAdd(dur_term + chars_term, cps_term)

RECURSIVE PrefixSum(_, _)
\* build_char_prefix_sum: prefix_sum[k]
PrefixSum(segs, k) ==
    IF k = 0 THEN 0 ELSE PrefixSum(segs, k - 1) + Len(segs[k].text)

\* Mutant: the hard limits are not applied to an edge.
EdgeRejected_never(cfg, duration, chars) == FALSE

\* duration > self.max_duration || chars > self.max_chars
EdgeRejected(cfg, duration, chars) ==
    duration > cfg.max_duration \/ chars > cfg.max_chars

RECURSIVE InnerLoop(_, _, _, _, _, _, _)
\* the loop over i of find_shortest_path for one j
InnerLoop(cfg, nodes, segs, j, i, dp, parent) ==
    IF i > Len(nodes) \/ nodes[i].index >= nodes[j].index
      THEN [dp |-> dp, parent |-> parent]
      ELSE LET duration == segs[nodes[j].index].end - segs[nodes[i].index + 1].start
               chars == PrefixSum(segs, nodes[j].index) - PrefixSum(segs, nodes[i].index)
               penalty == FloatAdd(BasePenalty(nodes[j]), SegmentPenalty(cfg, duration, chars))
               total == FloatAdd(dp[i], penalty)
           IN  IF EdgeRejected(cfg, duration, chars)
                 THEN InnerLoop(cfg, nodes, segs, j, i + 1, dp, parent)
                 ELSE IF FloatLt(total, dp[j])
                        THEN InnerLoop(cfg, nodes, segs, j, i + 1,
                                       [dp EXCEPT ![j] = total],
                                       [parent EXCEPT ![j] = i])
                        ELSE InnerLoop(cfg, nodes, segs, j, i + 1, dp, parent)

RECURSIVE OuterLoop(_, _, _, _, _, _)
OuterLoop(cfg, nodes, segs, j, dp, parent) ==
    IF j > Len(nodes) THEN [dp |-> dp, parent |-> parent]
    ELSE LET r == InnerLoop(cfg, nodes, segs, j, 1, dp, parent)
         IN  OuterLoop(cfg, nodes, segs, j + 1, r.dp, r.parent)

\* Segmenter::find_shortest_path; parent 0 stands for None
FindShortestPath(cfg, nodes, segs) ==
    OuterLoop(cfg, nodes, segs, 1,
              [k \in 1 .. Len(nodes) |-> IF k = 1 THEN 0 ELSE Infinity],
              [k \in 1 .. Len(nodes) |-> 0])

RECURSIVE ConcatTexts(_)
ConcatTexts(slice) ==
    IF slice = <<>> THEN <<>> ELSE Head(slice).text \o ConcatTexts(Tail(slice))

\* str::strip_prefix(' ').unwrap_or(..)
StripPrefixSpace(text) == IF StartsWith(text, " ") THEN Tail(text) ELSE text

\* merge_segments: the Option is a list of no or one segment
MergeSegments(slice) ==
    IF slice = <<>> THEN <<>>
    ELSE IF Len(slice) = 1 THEN <<slice[1]>>
    ELSE <<Segment(StripPrefixSpace(slice[1].text) \o ConcatTexts(Tail(slice)),
                   slice[1].start, slice[Len(slice)].end)>>

RECURSIVE BacktrackFrom_unreversed(_, _, _, _)
\* Mutant: the path is returned as pushed, without path.reverse().
BacktrackFrom_unreversed(nodes, parent, segs, v) ==
    IF parent[v] = 0 THEN <<>>
    ELSE LET u == parent[v]
         IN  MergeSegments(SubSeq(segs, nodes[u].index + 1, nodes[v].index))
                 \o BacktrackFrom_unreversed(nodes, parent, segs, u)

RECURSIVE BacktrackFrom(_, _, _, _)
\* the while loop of backtrack_path from node v, in the order after reverse()
BacktrackFrom(nodes, parent, segs, v) ==
    IF parent[v] = 0 THEN <<>>
    ELSE LET u == parent[v]
         IN  BacktrackFrom(nodes, parent, segs, u)
                 \o MergeSegments(SubSeq(segs, nodes[u].index + 1, nodes[v].index))

\* Segmenter::backtrack_path
BacktrackPath(nodes, parent, segs) == BacktrackFrom(nodes, parent, segs, Len(nodes))

\* Segmenter::regroup_chunk
RegroupChunk(cfg, segs) ==
    IF segs = <<>> THEN <<>>
    ELSE LET nodes == FromSegments(segs)
             r == FindShortestPath(cfg, nodes, segs)
         IN  BacktrackPath(nodes, r.parent, segs)

RECURSIVE PreSplit_geq(_, _, _, _)
\* Mutant: a gap equal to max_gap cuts as well.
PreSplit_geq(cfg, segs, i, j) ==
    IF j > Len(segs) THEN <<SubSeq(segs, i, Len(segs))>>
    ELSE IF segs[j].start - segs[j - 1].end >= cfg.max_gap
           THEN <<SubSeq(segs, i, j - 1)>> \o PreSplit_geq(cfg, segs, j, j + 1)
           ELSE PreSplit_geq(cfg, segs, i, j + 1)

RECURSIVE PreSplit(_, _, _, _)
\* the pre-split loop of regroup: the list of chunks, i the open chunk's start
PreSplit(cfg, segs, i, j) ==
    IF j > Len(segs) THEN <<SubSeq(segs, i, Len(segs))>>
    ELSE IF segs[j].start - segs[j - 1].end > cfg.max_gap
           THEN <<SubSeq(segs, i, j - 1)>> \o PreSplit(cfg, segs, j, j + 1)
           ELSE PreSplit(cfg, segs, i, j + 1)

RECURSIVE FlatMapRegroup(_, _)
FlatMapRegroup(cfg, chunks) ==
    IF chunks = <<>> THEN <<>>
    ELSE RegroupChunk(cfg, Head(chunks)) \o FlatMapRegroup(cfg, Tail(chunks))

RECURSIVE BacktrackRanges(_, _, _, _)
\* the edges backtrack_path walks from node v, as input ranges lo..hi
\* (1-based, shifted by the pre-split chunk's offset), in returned order
BacktrackRanges(nodes, parent, v, off) ==
    IF parent[v] = 0 THEN <<>>
    ELSE LET u == parent[v]
         IN  Append(BacktrackRanges(nodes, parent, u, off),
                    <<off + nodes[u].index + 1, off + nodes[v].index>>)

\* Segmenter::regroup_chunk on the chunk that starts off segments into the
\* input: the returned segments and the input range each was merged from
RegroupChunkRanges(cfg, segs, off) ==
    IF segs = <<>> THEN [segments |-> <<>>, ranges |-> <<>>]
    ELSE LET nodes == FromSegments(segs)
             r == FindShortestPath(cfg, nodes, segs)
         IN  [segments |-> BacktrackPath(nodes, r.parent, segs),
              ranges |-> BacktrackRanges(nodes, r.parent, Len(nodes), off)]

RECURSIVE FlatMapRanges(_, _, _)
\* the flat_map of regroup over the pre-split chunks
FlatMapRanges(cfg, chunks, off) ==
    IF chunks = <<>> THEN [segments |-> <<>>, ranges |-> <<>>]
    ELSE LET head == RegroupChunkRanges(cfg, Head(chunks), off)
             rest == FlatMapRanges(cfg, Tail(chunks), off + Len(Head(chunks)))
         IN  [segments |-> head.segments \o rest.segments,
              ranges |-> head.ranges \o rest.ranges]

\* Segmenter::regroup, with the input range of every returned segment
RegroupWithRanges(cfg, segs) ==
    IF segs = <<>> THEN [segments |-> <<>>, ranges |-> <<>>]
    ELSE FlatMapRanges(cfg, PreSplit(cfg, segs, 1, 2), 0)

\* Segmenter::regroup
Regroup(cfg, segs) == RegroupWithRanges(cfg, segs).segments

\* Segmenter::COMFORTABLE
COMFORTABLE ==
    [max_gap |-> (3 * TicksPerSec) \div 2, target_duration |-> 3 * TicksPerSec,
     target_chars |-> 42, max_duration |-> 7 * TicksPerSec, max_chars |-> 84,
     target_cps |-> 22]

\* A tight configuration in the style of the test presets: 0.5 s gap, 1 s
\* target, 1.5 s and 3 characters at most, 4 characters per second
TIGHT ==
    [max_gap |-> 1, target_duration |-> TicksPerSec,
     target_chars |-> 2, max_duration |-> TicksPerSec + 1, max_chars |-> 3,
     target_cps |-> 4]

Segmenters == {COMFORTABLE, TIGHT}

\* segment texts: a sub-word continuation, a word start, a sentence end, a
\* soft break
Texts == {<<"a">>, <<" ", "b">>, <<".">>, <<",">>}
\* gap to the previous segment's end and own duration, in ticks
SegGaps == {-1, 0, 1, 3}
SegDurations == {0, 2}

RECURSIVE SegmentLists(_)
\* all segment lists of at most n segments, the first starting at 0
SegmentLists(n) ==
    IF n = 0 THEN {<<>>}
    ELSE LET shorter == SegmentLists(n - 1)
             full == {q \in shorter : Len(q) = n - 1}
             StartAfter(q, g) == IF q = <<>> THEN 0 ELSE q[Len(q)].end + g
         IN  shorter \cup
             {Append(x[1], Segment(x[2], StartAfter(x[1], x[3]), StartAfter(x[1], x[3]) + x[4])) :
                 x \in {y \in full \X Texts \X SegGaps \X SegDurations :
                          /\ StartAfter(y[1], y[3]) >= 0
                          /\ (y[1] = <<>> => y[3] = 0)}}

RegroupInit ==
    /\ DecIdle /\ MergeIdle /\ ChunkIdle
    /\ TcIdle /\ TsIdle /\ SrtIdle /\ RepoIdle /\ LgIdle /\ AmIdle /\ ZeroIdle /\ CallIdle
    /\ segmenter \in Segmenters
    /\ segments \in SegmentLists(MaxSegments)
    /\ regrouped = <<>>
    /\ groups = <<>>
    /\ rpc = "call"

RegroupCall ==
    /\ rpc = "call"
    /\ \E out \in {RegroupWithRanges(segmenter, segments)} :
           /\ regrouped' = out.segments
           /\ groups' = out.ranges
    /\ rpc' = "done"
    /\ UNCHANGED <<segmenter, segments>>
    /\ UNCHANGED <<decVars, mergeVars, chunkVars, tcVars, tsVars, srtVars, repoVars, lgVars, amVars, zeroVars, callVars>>

RegroupNext == RegroupCall

RegroupSpec == RegroupInit /\ [][RegroupNext]_vars

----------------------------------------------------------------------------(* to_subtitles (srt.rs).  Segment times are ticks of 1/TicksPerSec s;       *)
(* Timestamps are whole milliseconds.                                       *)

\* secs_to_timestamp: Timestamp::from_milliseconds((secs * 1000.0) as u32)
SecsToTimestamp(ticks) == IF ticks <= 0 THEN 0 ELSE (ticks * 1000) \div TicksPerSec

Subtitle(index, start_time, end_time, text) ==
    [index |-> index, start_time |-> start_time, end_time |-> end_time, text |-> text]

\* Mutant: a comma closes a subtitle as well.
IsSentenceEnd_comma(text) == EndsWith(text, {".", "!", "?", ","})

\* is_sentence_end
IsSentenceEnd(text) == EndsWith(text, {".", "!", "?"})

\* srt.rs merge_segments: the Option is a list of no or one subtitle
MergeSubtitle(group, index) ==
    IF group = <<>> THEN <<>>
    ELSE IF Len(group) = 1
      THEN <<Subtitle(index, SecsToTimestamp(group[1].start), SecsToTimestamp(group[1].end),
                      StripPrefixSpace(group[1].text))>>
      ELSE <<Subtitle(index, SecsToTimestamp(group[1].start),
                      SecsToTimestamp(group[Len(group)].end),
                      StripPrefixSpace(group[1].text) \o ConcatTexts(Tail(group)))>>

RECURSIVE ToSubtitlesLoop(_, _, _, _)
\* the loop for j in 1..=segments.len() of to_subtitles; i and j as in the
\* code, the group segments[i..j] is SubSeq(segs, i + 1, j)
ToSubtitlesLoop(segs, i, j, subs) ==
    IF j > Len(segs) THEN subs
    ELSE LET is_end == j = Len(segs)
             ends_sentence == ~is_end /\ IsSentenceEnd(segs[j].text)
         IN  IF is_end \/ ends_sentence
               THEN ToSubtitlesLoop(segs, j, j + 1,
                        subs \o MergeSubtitle(SubSeq(segs, i + 1, j), Len(subs) + 1))
               ELSE ToSubtitlesLoop(segs, i, j + 1, subs)

\* to_subtitles
ToSubtitles(segs) == ToSubtitlesLoop(segs, 0, 1, <<>>)

SrtInit ==
    /\ DecIdle /\ MergeIdle /\ ChunkIdle /\ RegroupIdle /\ TcIdle /\ TsIdle /\ RepoIdle /\ LgIdle /\ AmIdle /\ ZeroIdle /\ CallIdle
    /\ srt_segments \in SegmentLists(MaxSegments)
    /\ subtitles = <<>>
    /\ srt_pc = "call"

SrtCall ==
    /\ srt_pc = "call"
    /\ subtitles' = ToSubtitles(srt_segments)
    /\ srt_pc' = "done"
    /\ UNCHANGED srt_segments
    /\ UNCHANGED <<decVars, mergeVars, chunkVars, regroupVars, tcVars, tsVars, repoVars, lgVars, amVars, zeroVars, callVars>>

SrtNext == SrtCall

SubtitleSpec == SrtInit /\ [][SrtNext]_vars

----------------------------------------------------------------------------
(* Model file resolution: TdtModel::from_repo (models/tdt/core.rs) and       *)
(* TdtModel::from_pretrained (models/tdt.rs).                                *)

\* from_repo: the names passed to repo.resolve_any
EncoderCandidates == <<"encoder-model.onnx", "encoder.onnx", "encoder-model.int8.onnx">>
DecoderCandidates ==
    <<"decoder_joint-model.onnx", "decoder_joint.onnx", "decoder_joint-model.int8.onnx">>

\* find_encoder, find_decoder_joint: the candidates arrays
FindEncoderCandidates == <<"encoder-model.onnx", "encoder.onnx", "encoder-model.int8.onnx">>
FindDecoderJointCandidates ==
    <<"decoder_joint-model.onnx", "decoder_joint-model.int8.onnx", "decoder_joint.onnx",
      "decoder-model.onnx">>

\* files a model directory may hold
FileNames ==
    {"encoder-model.onnx", "encoder.onnx", "encoder-model.int8.onnx", "encoder-fp16.onnx",
     "decoder_joint-model.onnx", "decoder_joint.onnx", "decoder_joint-model.int8.onnx",
     "decoder-model.onnx", "tokenizer.json"}

\* name.starts_with("encoder") && name.ends_with(".onnx"), on FileNames
IsEncoderOnnx(name) ==
    name \in {"encoder-model.onnx", "encoder.onnx", "encoder-model.int8.onnx",
              "encoder-fp16.onnx"}

\* no path: the lookup failed
NoPath == ""

\* the first candidate, in list order, that exists
FirstExisting(candidates, files) ==
    LET hits == {i \in DOMAIN candidates : candidates[i] \in files}
    IN  IF hits = {} THEN NoPath
        ELSE candidates[CHOOSE i \in hits : \A h \in hits : i <= h]

\* ModelRepo::resolve_any
ResolveAny(candidates, files) == FirstExisting(candidates, files)

\* find_encoder: the set of paths it can return ({} stands for Err); the
\* order of read_dir entries is the file system's
FindEncoder(files) ==
    IF FirstExisting(FindEncoderCandidates, files) # NoPath
      THEN {FirstExisting(FindEncoderCandidates, files)}
      ELSE {f \in files : IsEncoderOnnx(f)}

\* find_decoder_joint
FindDecoderJoint(files) ==
    IF FirstExisting(FindDecoderJointCandidates, files) # NoPath
      THEN {FirstExisting(FindDecoderJointCandidates, files)}
      ELSE {}

RepoInit ==
    /\ DecIdle /\ MergeIdle /\ ChunkIdle /\ RegroupIdle /\ TcIdle /\ TsIdle /\ SrtIdle /\ LgIdle /\ AmIdle /\ ZeroIdle /\ CallIdle
    /\ repo_files \in SUBSET FileNames
    /\ loader \in {"from_repo", "from_pretrained"}
    /\ encoder_path = NoPath
    /\ decoder_path = NoPath
    /\ repo_pc = "encoder"

\* the encoder path is looked up
ResolveEncoder ==
    /\ repo_pc = "encoder"
    /\ LET found == IF loader = "from_repo"
                      THEN {ResolveAny(EncoderCandidates, repo_files)} \ {NoPath}
                      ELSE FindEncoder(repo_files)
       IN  IF found = {}
             THEN repo_pc' = "error" /\ encoder_path' = encoder_path
             ELSE repo_pc' = "decoder" /\ encoder_path' \in found
    /\ UNCHANGED <<repo_files, loader, decoder_path>>
    /\ UNCHANGED <<decVars, mergeVars, chunkVars, regroupVars, tcVars, tsVars, srtVars, lgVars, amVars, zeroVars, callVars>>

\* the decoder-joint path is looked up
ResolveDecoder ==
    /\ repo_pc = "decoder"
    /\ LET found == IF loader = "from_repo"
                      THEN {ResolveAny(DecoderCandidates, repo_files)} \ {NoPath}
                      ELSE FindDecoderJoint(repo_files)
       IN  IF found = {}
             THEN repo_pc' = "error" /\ decoder_path' = decoder_path
             ELSE /\ repo_pc' = IF loader = "from_repo" THEN "tokenizer" ELSE "loaded"
                  /\ decoder_path' \in found
    /\ UNCHANGED <<repo_files, loader, encoder_path>>
    /\ UNCHANGED <<decVars, mergeVars, chunkVars, regroupVars, tcVars, tsVars, srtVars, lgVars, amVars, zeroVars, callVars>>

\* from_repo: repo.resolve("tokenizer.json")?
ResolveTokenizer ==
    /\ repo_pc = "tokenizer"
    /\ repo_pc' = IF "tokenizer.json" \in repo_files THEN "loaded" ELSE "error"
    /\ UNCHANGED <<repo_files, loader, encoder_path, decoder_path>>
    /\ UNCHANGED <<decVars, mergeVars, chunkVars, regroupVars, tcVars, tsVars, srtVars, lgVars, amVars, zeroVars, callVars>>

RepoNext == ResolveEncoder \/ ResolveDecoder \/ ResolveTokenizer

RepoSpec == RepoInit /\ [][RepoNext]_vars

----------------------------------------------------------------------------
(* C1: every TokenDuration list returned by greedy_decode contains no entry
   whose token_id is blank_id, and its frame_index values are non-decreasing
   in list order. *)
C1_NoBlankNonDecreasing ==
    Returned =>
        /\ \A i \in DOMAIN tokens : tokens[i].token_id # blank_id
        /\ \A i \in 1 .. Len(tokens) - 1 :
               tokens[i].frame_index <= tokens[i + 1].frame_index

\* A returned list with two entries at one frame, a later entry at a later
\* frame, and at least one blank prediction on the way.
C1_Witness ==
    /\ Returned
    /\ Len(tokens) >= 3
    /\ tokens[1].frame_index = tokens[2].frame_index
    /\ tokens[2].frame_index < tokens[3].frame_index
    /\ joint_runs > Len(tokens)

(* C2: for every encoded_length >= 1 greedy_decode terminates; each outer
   iteration moves the frame pointer forward by at least 1, the joint is run
   at most 10 * encoded_length times, and at most 10 tokens carry any one
   frame_index. *)
C2_Terminates ==
    /\ <>Terminated
    /\ [][(pc = "inner" /\ pc' = "while") => frame_index' >= frame_index + 1]_vars
    /\ [](/\ joint_runs <= MaxSymbolsPerStep * encoded_length
          /\ \A f \in 0 .. encoded_length :
                 CountAtFrame(tokens, f) <= MaxSymbolsPerStep)

\* The forced advance happened: ten zero-skip tokens at frame 0, then the
\* decode went on and finished.
C2_Witness ==
    /\ Returned
    /\ CountAtFrame(tokens, 0) = MaxSymbolsPerStep
    /\ \A i \in DOMAIN tokens : tokens[i].duration = 0
    /\ frame_index >= 1


(* C3 as stated: for all lists A and B, merging A then B gives B if A is
   empty, A if B is empty, and otherwise A followed by exactly the entries of
   B whose frame_index >= A.last.frame_index + A.last.duration. *)
C3_StitchAllLists ==
    mpc \in {"pair", "done"} => mAB = StitchRule(chunkA, chunkB)

(* C3 amended: the stitch rule holds for every A and every B whose
   frame_index values are non-decreasing. *)
C3_StitchNonDecreasing ==
    (mpc \in {"pair", "done"} /\ NonDecreasing(chunkB))
        => mAB = StitchRule(chunkA, chunkB)

\* A non-decreasing B with one entry below the cutoff (dropped) and one
\* entry exactly at the cutoff (kept).
C3_Witness ==
    /\ mpc = "pair"
    /\ chunkA # <<>> /\ Len(chunkB) >= 2 /\ NonDecreasing(chunkB)
    /\ chunkB[1].frame_index < Cutoff(chunkA)
    /\ chunkB[Len(chunkB)].frame_index = Cutoff(chunkA)
    /\ Len(mAB) = Len(chunkA) + 1

(* C4 as stated: for all non-decreasing lists A, B, C with durations in
   0..4, merge(merge(A, B), C) = merge(A, merge(B, C)). *)
C4_Associative ==
    (/\ mpc = "done"
     /\ NonDecreasing(chunkA) /\ NonDecreasing(chunkB) /\ NonDecreasing(chunkC))
        => mLeft = mRight

(* C4 amended: the two bracketings agree for non-decreasing A, B, C when one
   of the three is empty or B's last entry lies at or after A's cutoff (so
   that B is not dropped whole by A). *)
C4_AssociativeWhenBSurvives ==
    (/\ mpc = "done"
     /\ NonDecreasing(chunkA) /\ NonDecreasing(chunkB) /\ NonDecreasing(chunkC)
     /\ \/ chunkA = <<>> \/ chunkB = <<>> \/ chunkC = <<>>
        \/ chunkB[Len(chunkB)].frame_index >= Cutoff(chunkA))
        => mLeft = mRight

\* Three non-empty chunks, B kept after A, C dropped as overlap of B.
C4_Witness ==
    /\ mpc = "done"
    /\ chunkA # <<>> /\ chunkB # <<>> /\ chunkC # <<>>
    /\ NonDecreasing(chunkA) /\ NonDecreasing(chunkB) /\ NonDecreasing(chunkC)
    /\ chunkB[Len(chunkB)].frame_index >= Cutoff(chunkA)
    /\ mLeft = chunkA \o chunkB
    /\ mRight = mLeft

\* Size of an emitted window
WindowLen(item) == item.end - item.start

\* The k-th window (k = 0, 1, ...) in closed form
WindowK(k) ==
    ChunkItem(k * step_size, Min(len, k * step_size + chunk_size), k * step_size)

(* C7: for every total length N with 0 <= N <= chunk_samples, N = 0
   included, the iterator yields exactly one item, the range 0..N with offset
   0.0, and every later call of next returns None. *)
C7_SingleChunk ==
    (cpc = "iter" /\ len <= chunk_size /\ calls >= 1) =>
        /\ emitted = <<ChunkItem(0, len, 0)>>
        /\ (calls >= 2 => last_ret = "none")

(* C8 as stated: for N > chunk_samples the iterator yields, in order, exactly
   the windows [k*step, min(N, k*step + chunk_samples)) with offset
   k*step/16000 for every k with k*step < N, and only the final window may
   be shorter than chunk_samples. *)
C8_WindowsOnlyFinalShort ==
    (cpc = "iter" /\ len > chunk_size) =>
        /\ \A k \in DOMAIN emitted :
               emitted[k] = WindowK(k - 1) /\ (k - 1) * step_size < len
        /\ (last_ret = "none" => Len(emitted) * step_size >= len)
        /\ \A k \in DOMAIN emitted :
               WindowLen(emitted[k]) < chunk_size => k * step_size >= len

(* C8 amended: the windows are exactly [k*step, min(N, k*step +
   chunk_samples)) for every k with k*step < N; a window has chunk_samples
   samples exactly when k*step + chunk_samples <= N, so every window that
   starts after N - chunk_samples is shorter, and with an overlap there can
   be several of them. *)
C8_Windows ==
    (cpc = "iter" /\ len > chunk_size) =>
        /\ \A k \in DOMAIN emitted :
               emitted[k] = WindowK(k - 1) /\ (k - 1) * step_size < len
        /\ (last_ret = "none" => Len(emitted) * step_size >= len)
        /\ \A k \in DOMAIN emitted :
               WindowLen(emitted[k]) = chunk_size
                   <=> (k - 1) * step_size + chunk_size <= len

\* A finished iteration over long audio with an overlap: at least three
\* windows, the last two both shorter than chunk_samples.
C8_Witness ==
    /\ cpc = "iter" /\ len > chunk_size /\ last_ret = "none"
    /\ step_size > 0 /\ step_size < chunk_size
    /\ Len(emitted) >= 3
    /\ WindowLen(emitted[1]) = chunk_size
    /\ WindowLen(emitted[Len(emitted) - 1]) < chunk_size
    /\ WindowLen(emitted[Len(emitted)]) < chunk_size

(* C9: for every ChunkConfig, overlap >= duration included, the step between
   windows is at least one sample, step_samples = max(1, chunk_samples -
   overlap_samples), so the position strictly increases with each emitted
   window. *)
C9_StepAtLeastOne ==
    /\ [](cpc = "iter" =>
            step_size = Max(1, chunk_size - OverlapSamples(cfg_overlap)))
    /\ [][Len(emitted') > Len(emitted) => position' > position]_vars

StartsNonDecreasing(L) == \A i \in 1 .. Len(L) - 1 : L[i].start <= L[i + 1].start

\* number of pre-split chunks of the input
NumPreSplit == Len(PreSplit(segmenter, segments, 1, 2))

(* C5: every segment returned by Segmenter::regroup satisfies
   end - start <= max_duration and text length <= max_chars. *)
C5_HardLimits ==
    rpc = "done" =>
        \A k \in DOMAIN regrouped :
            /\ regrouped[k].end - regrouped[k].start <= segmenter.max_duration
            /\ Len(regrouped[k].text) <= segmenter.max_chars

\* An input longer than both limits is split, and one returned segment
\* lasts exactly max_duration.
C5_Witness ==
    /\ rpc = "done"
    /\ Len(segments) >= 2 /\ NumPreSplit = 1
    /\ segments[Len(segments)].end - segments[1].start > segmenter.max_duration
    /\ PrefixSum(segments, Len(segments)) > segmenter.max_chars
    /\ Len(regrouped) = 2
    /\ \E k \in DOMAIN regrouped :
           /\ regrouped[k].end - regrouped[k].start = segmenter.max_duration
           /\ Len(regrouped[k].text) >= 2

(* C6: for input segments with non-decreasing start values, the list
   returned by Segmenter::regroup has non-decreasing start values, within
   each pre-split chunk and across pre-split chunk boundaries. *)
C6_StartsOrdered ==
    (rpc = "done" /\ StartsNonDecreasing(segments)) => StartsNonDecreasing(regrouped)

\* Three returned segments from two pre-split chunks: one boundary between
\* them is a pre-split cut, the other a split chosen by the DP.
C6_Witness ==
    /\ rpc = "done"
    /\ StartsNonDecreasing(segments)
    /\ NumPreSplit = 2
    /\ Len(regrouped) = 3
    /\ regrouped[1].start < regrouped[2].start
    /\ regrouped[2].start < regrouped[3].start

\* every boundary between consecutive segments is mid-word
AllMidWord(segs) ==
    \A i \in 1 .. Len(segs) - 1 : NodeNew(i, segs[i], segs[i + 1]).split_type = "None"

(* C10: if every boundary between consecutive input segments is mid-word and
   no inter-segment gap exceeds max_gap, Segmenter::regroup on a non-empty
   input returns exactly one segment, whatever the total duration and
   character count. *)
C10_MidWordSingle ==
    (/\ rpc = "done"
     /\ segments # <<>>
     /\ AllMidWord(segments)
     /\ NumPreSplit = 1)
        => Len(regrouped) = 1

\* the position between input segments i and i + 1 is mid-word
MidWord(i) ==
    /\ ~EndsWith(segments[i].text, {".", "!", "?", ",", ":", ";", "-"})
    /\ ~StartsWith(segments[i + 1].text, " ")

\* the silence gap between input segments i and i + 1
GapAfter(i) == segments[i + 1].start - segments[i].end

\* every returned segment is merge_segments of its recorded input range
GroupsMatch ==
    /\ Len(groups) = Len(regrouped)
    /\ \A k \in DOMAIN groups :
           <<regrouped[k]>> = MergeSegments(SubSeq(segments, groups[k][1], groups[k][2]))

(* C11 as stated: for every input, no two consecutive segments returned by
   Segmenter::regroup are separated at a mid-word boundary (left segment ends
   with none of . ! ? , : ; - and right segment does not start with a
   space). *)
C11_NoMidWordSplit ==
    rpc = "done" =>
        /\ GroupsMatch
        /\ \A k \in 1 .. Len(groups) - 1 :
               groups[k + 1][1] = groups[k][2] + 1 => ~MidWord(groups[k][2])

(* C11 amended: a boundary between returned segments is never a mid-word
   position unless the silence gap at that position exceeds max_gap, where
   the pre-split cuts unconditionally. *)
C11_NoMidWordSplitInChunk ==
    rpc = "done" =>
        /\ GroupsMatch
        /\ \A k \in DOMAIN groups :
               /\ groups[k][2] < Len(segments) =>
                      \/ ~MidWord(groups[k][2])
                      \/ GapAfter(groups[k][2]) > segmenter.max_gap
               /\ groups[k][1] > 1 =>
                      \/ ~MidWord(groups[k][1] - 1)
                      \/ GapAfter(groups[k][1] - 1) > segmenter.max_gap

\* The DP split one pre-split chunk in two although the chunk also holds a
\* mid-word position, which stayed inside a returned segment.
C11_Witness ==
    /\ rpc = "done" /\ NumPreSplit = 1
    /\ Len(groups) = 2
    /\ \E i \in 1 .. Len(segments) - 1 :
           MidWord(i) /\ \A k \in DOMAIN groups : groups[k][2] # i

(* C12: every segment returned by the regrouper for a group of one or more
   consecutive input segments has text equal to the members' texts
   concatenated with the leading space of the first member stripped, start
   equal to the first member's start and end equal to the last member's end,
   for groups of a single member as well as for larger groups. *)
C12_MergedSegment ==
    rpc = "done" =>
        /\ Len(groups) = Len(regrouped)
        /\ \A k \in DOMAIN groups :
               LET members == SubSeq(segments, groups[k][1], groups[k][2])
               IN  regrouped[k] =
                       Segment(StripPrefixSpace(members[1].text) \o ConcatTexts(Tail(members)),
                               members[1].start, members[Len(members)].end)

(* C13: chunked transcription is fail-fast: chunks are processed one at a
   time in increasing offset order, and if processing of chunk k fails then
   transcribe_chunked returns that error, returns no tokens of any chunk, and
   processes no chunk after k.  The k-th chunk processed is the k-th item of
   the chunk iterator; offsets never decrease, and they strictly increase
   whenever the iterator's step is at least one sample and the audio is not
   empty. *)
C13_FailFast ==
    /\ [](/\ \A k \in DOMAIN tc_log :
                 /\ tc_log[k][1] = k
                 /\ tc_log[k][2] = emitted[k].offset_num
                 /\ k < Len(tc_log) =>
                        /\ tc_log[k][3] = "ok"
                        /\ tc_log[k][2] <= tc_log[k + 1][2]
                        /\ (step_size >= 1 /\ len >= 1) =>
                               tc_log[k][2] < tc_log[k + 1][2]
          /\ tc_pc = "err" =>
                 /\ tc_error = <<Len(tc_log), tc_log[Len(tc_log)][3]>>
                 /\ tc_error[2] \in Stages
                 /\ tc_result = <<>>
          /\ tc_pc = "ok" => tc_error = <<>>
          /\ tc_error # <<>> => tc_pc = "err")
    /\ [][tc_pc = "err" => (tc_pc' = "err" /\ tc_log' = tc_log /\ calls' = calls)]_vars

\* Overlapping chunks of long audio: the third chunk failed after two chunks
\* had been transcribed and before the last chunk was reached; the call
\* returned the error and nothing else.
C13_Witness ==
    /\ tc_pc = "err"
    /\ step_size >= 1 /\ step_size < chunk_size
    /\ tc_error[1] = 3
    /\ Len(tc_log) = 3
    /\ Len(emitted) = 3 /\ calls = 3
    /\ emitted[1].offset_num < emitted[2].offset_num
    /\ emitted[2].offset_num < emitted[3].offset_num
    /\ emitted[3].end < len
    /\ tc_result = <<>>

\* indices of the steps that yielded Some(text), in order
RECURSIVE SomeSteps(_)
SomeSteps(k) ==
    IF k = 0 THEN <<>>
    ELSE IF ts_log[k].kind = "some" THEN Append(SomeSteps(k - 1), k) ELSE SomeSteps(k - 1)

(* C14: to_segments feeds the tokens to the decode stream one at a time in
   order and emits a segment only for a step that yields Some(text), with
   start = frame_to_secs(frame_index) and end = frame_to_secs(frame_index +
   duration) of the token fed in that step; a step that yields None emits
   nothing, so the output has at most as many segments as input tokens,
   keeps the input order, and has start <= end in every segment; a tokenizer
   error at any step makes the whole call return an error with no segments. *)
C14_ToSegments ==
    /\ Len(ts_log) = ts_i
    /\ ts_pc \in {"iter", "ok"} =>
           LET some == SomeSteps(ts_i)
           IN  /\ Len(ts_out) = Len(some)
               /\ \A n \in DOMAIN some :
                      LET td == ts_input[some[n]]
                      IN  /\ ts_out[n].text = ts_log[some[n]].text
                          /\ ts_out[n].start = FrameToSecs(td.frame_index)
                          /\ ts_out[n].end = FrameToSecs(td.frame_index + td.duration)
                          /\ ts_out[n].start <= ts_out[n].end
               /\ Len(ts_out) <= Len(ts_input)
    /\ ts_pc = "ok" => ts_i = Len(ts_input)
    /\ ts_pc = "err" => (ts_out = <<>> /\ ts_log[ts_i].kind = "err")

\* A finished call in which the stream held one token back: three tokens,
\* two segments, the second built from the third token.
C14_Witness ==
    /\ ts_pc = "ok"
    /\ Len(ts_input) = 3
    /\ ts_log[1].kind = "some" /\ ts_log[2].kind = "none" /\ ts_log[3].kind = "some"
    /\ Len(ts_out) = 2
    /\ ts_input[3].duration > 0
    /\ ts_out[2].start = FrameToSecs(ts_input[3].frame_index)
    /\ ts_out[2].start < ts_out[2].end

(* C15: merging preserves time order: for chunks whose TokenDuration lists
   each have non-decreasing frame_index after offsetting, merge_outputs
   returns a list with non-decreasing frame_index, so the segments built from
   it (start = frame_to_secs(frame_index), in list order) have non-decreasing
   start. *)
C15_MergeKeepsOrder ==
    (/\ mpc = "done"
     /\ NonDecreasing(chunkA) /\ NonDecreasing(chunkB) /\ NonDecreasing(chunkC))
        => /\ NonDecreasing(mLeft)
           /\ \A i, j \in DOMAIN mLeft :
                  i < j => FrameToSecs(mLeft[i].frame_index)
                               <= FrameToSecs(mLeft[j].frame_index)

\* Three ordered chunks: B lies wholly inside A's extent and is dropped, C
\* starts later and is kept.
C15_Witness ==
    /\ mpc = "done"
    /\ chunkA # <<>> /\ chunkB # <<>> /\ chunkC # <<>>
    /\ NonDecreasing(chunkA) /\ NonDecreasing(chunkB) /\ NonDecreasing(chunkC)
    /\ chunkB[Len(chunkB)].frame_index < Cutoff(chunkA)
    /\ mLeft = chunkA \o chunkC
    /\ mLeft[Len(chunkA)].frame_index < mLeft[Len(chunkA) + 1].frame_index

(* C16: if the argmax over the duration logits is an index outside 0..4,
   greedy_decode returns DurationIndexOutOfBounds and no token list,
   discarding the tokens decoded so far; consequently every TokenDuration in
   a list that is returned has duration in {0, 1, 2, 3, 4}. *)
C16_DurationIndexOutOfBounds ==
    /\ [][(pc = "inner" /\ duration_idx' \notin {NoArgmax} \cup (0 .. 4))
            => result' = <<"Err", DurationIndexOutOfBounds(duration_idx')>>]_vars
    /\ [](/\ (result # <<>> /\ result[1] = "Err") => (pc = "error" /\ Len(result) = 2)
          /\ (result # <<>> /\ result[1] = "Ok") =>
                 /\ pc = "done" /\ result[2] = tokens
                 /\ \A i \in DOMAIN tokens : tokens[i].duration \in {0, 1, 2, 3, 4}
          /\ pc = "error" => (result # <<>> /\ result[1] = "Err")
          /\ pc = "done" => (result # <<>> /\ result[1] = "Ok"))

\* The duration head answered index 5 at a later frame, after two tokens had
\* been decoded (two state updates): the call returned the error and no
\* token.
C16_Witness ==
    /\ pc = "error"
    /\ result = <<"Err", DurationIndexOutOfBounds(5)>>
    /\ states >= 2
    /\ frame_index >= 1
    /\ tokens = <<>>

(* C17: estimate_chunk_count(total_duration_sec, config) equals the number
   of windows the chunk iterator yields for audio of that duration with the
   same config, for every total duration and every config with
   overlap < duration. *)
C17_EstimateMatchesIterator ==
    (cpc = "iter" /\ last_ret = "none" /\ cfg_overlap < cfg_duration)
        => Len(emitted) = EstimateChunkCount(len, cfg_duration, cfg_overlap)

\* the positions after which a subtitle is closed: every segment ending with
\* . ! ? and the last segment, in order
GroupEnds ==
    SelectSeq([j \in 1 .. Len(srt_segments) |-> j],
              LAMBDA j : j = Len(srt_segments)
                           \/ EndsWith(srt_segments[j].text, {".", "!", "?"}))

(* C18: to_subtitles partitions its input into consecutive groups, closing a
   group exactly after each segment whose text ends with . ! or ? and at the
   end of the input: every input segment belongs to exactly one subtitle in
   input order, an input without sentence-ending punctuation gives one
   subtitle, an empty input gives none, subtitle indices are 1, 2, ..., n
   without gaps, and each subtitle's start and end are those of its group's
   first and last segment. *)
C18_SentenceGroups ==
    srt_pc = "done" =>
        /\ Len(subtitles) = Len(GroupEnds)
        /\ \A k \in DOMAIN subtitles :
               LET lo == IF k = 1 THEN 1 ELSE GroupEnds[k - 1] + 1
                   hi == GroupEnds[k]
                   group == SubSeq(srt_segments, lo, hi)
               IN  /\ lo <= hi
                   /\ subtitles[k].index = k
                   /\ subtitles[k].start_time = SecsToTimestamp(srt_segments[lo].start)
                   /\ subtitles[k].end_time = SecsToTimestamp(srt_segments[hi].end)
                   /\ subtitles[k].text =
                          StripPrefixSpace(group[1].text) \o ConcatTexts(Tail(group))
        /\ srt_segments = <<>> => subtitles = <<>>
        /\ (/\ srt_segments # <<>>
            /\ \A j \in DOMAIN srt_segments :
                   ~EndsWith(srt_segments[j].text, {".", "!", "?"}))
               => Len(subtitles) = 1

\* Three segments, a sentence end after the first: two subtitles, the second
\* made of two segments and closed by the end of the input.
C18_Witness ==
    /\ srt_pc = "done"
    /\ Len(srt_segments) = 3
    /\ EndsWith(srt_segments[1].text, {".", "!", "?"})
    /\ ~EndsWith(srt_segments[2].text, {".", "!", "?"})
    /\ ~EndsWith(srt_segments[3].text, {".", "!", "?"})
    /\ Len(subtitles) = 2
    /\ subtitles[2].index = 2
    /\ subtitles[2].start_time < subtitles[2].end_time

(* C19: the segment-to-subtitle mapping is one to one: for every segment
   list, the subtitle list has as many entries as the segment list, and
   subtitle k (numbered from 1) carries the text and the start and end times
   of the k-th segment. *)
C19_OneToOne ==
    srt_pc = "done" =>
        /\ Len(subtitles) = Len(srt_segments)
        /\ \A k \in DOMAIN subtitles :
               /\ subtitles[k].index = k
               /\ subtitles[k].text = StripPrefixSpace(srt_segments[k].text)
               /\ subtitles[k].start_time = SecsToTimestamp(srt_segments[k].start)
               /\ subtitles[k].end_time = SecsToTimestamp(srt_segments[k].end)

\* the first name of a list, in list order, that is among the files; "" if none
FirstListed(names) ==
    LET hits == {i \in DOMAIN names : names[i] \in repo_files}
    IN  IF hits = {} THEN "" ELSE names[CHOOSE i \in hits : \A h \in hits : i <= h]

(* C20: model files are resolved by trying the candidate names in the listed
   order and taking the first that exists: the encoder from
   encoder-model.onnx, encoder.onnx, encoder-model.int8.onnx and the
   decoder-joint from decoder_joint-model.onnx, decoder_joint.onnx,
   decoder_joint-model.int8.onnx; when several candidates exist the earlier
   one in this order is chosen, and when no listed candidate exists loading
   fails with an error. *)
C20_CandidateOrder ==
    LET enc == FirstListed(<<"encoder-model.onnx", "encoder.onnx", "encoder-model.int8.onnx">>)
        dec == FirstListed(<<"decoder_joint-model.onnx", "decoder_joint.onnx",
                             "decoder_joint-model.int8.onnx">>)
    IN  /\ repo_pc \in {"decoder", "tokenizer", "loaded"} =>
               (encoder_path = enc /\ enc # "")
        /\ repo_pc \in {"tokenizer", "loaded"} => (decoder_path = dec /\ dec # "")
        /\ (repo_pc # "encoder" /\ enc = "") => repo_pc = "error"
        /\ (repo_pc \notin {"encoder", "decoder"} /\ dec = "") => repo_pc = "error"

\* the positions i (between input segments i and i + 1) whose gap exceeds
\* max_gap
LargeGaps == {i \in 1 .. Len(segments) - 1 : GapAfter(i) > segmenter.max_gap}

\* the k-th large gap in input order
NthLargeGap(k) ==
    CHOOSE c \in LargeGaps : Cardinality({d \in LargeGaps : d <= c}) = k

\* the pieces of the input between consecutive large gaps, in order, as
\* input ranges <<lo, hi>>
PieceBounds ==
    [k \in 1 .. Cardinality(LargeGaps) + 1 |->
        <<IF k = 1 THEN 1 ELSE NthLargeGap(k - 1) + 1,
          IF k = Cardinality(LargeGaps) + 1 THEN Len(segments) ELSE NthLargeGap(k)>>]

Pieces ==
    [k \in 1 .. Cardinality(LargeGaps) + 1 |->
        SubSeq(segments,
               IF k = 1 THEN 1 ELSE NthLargeGap(k - 1) + 1,
               IF k = Cardinality(LargeGaps) + 1 THEN Len(segments) ELSE NthLargeGap(k))]

(* C21: Segmenter::regroup first cuts the input at every boundary whose gap
   segments[j].start - segments[j-1].end exceeds max_gap and regroups each
   piece independently: the result is the concatenation of regroup_chunk over
   the pieces between such gaps, no returned segment holds input segments
   from both sides of such a gap, and a gap equal to max_gap is no cut. *)
C21_PreSplitAtLargeGaps ==
    (rpc = "done" /\ segments # <<>>) =>
        /\ regrouped = FlatMapRegroup(segmenter, Pieces)
        /\ GroupsMatch
        /\ \A k \in DOMAIN groups :
               \A i \in groups[k][1] .. groups[k][2] - 1 : i \notin LargeGaps

\* One gap above max_gap cut the input in two pieces, and a returned segment
\* spans a position whose gap equals max_gap.
C21_Witness ==
    /\ rpc = "done"
    /\ Cardinality(LargeGaps) = 1
    /\ Len(regrouped) = 2
    /\ \E k \in DOMAIN groups :
           \E i \in groups[k][1] .. groups[k][2] - 1 : GapAfter(i) = segmenter.max_gap

\* twice the midpoint existing_end - overlap_sec / 2 for the two chunks merged
MergeThreshold2 == 2 * tc_chunks[1][Len(tc_chunks[1])].end - cfg_overlap

(* C22: the time-based token merge skips the overlap duplicates: when both
   lists are non-empty, all accumulated tokens are kept, and the tokens
   appended after them are tokens of the new chunk that start at or after
   existing_end - overlap_sec / 2; no new token starting below that
   threshold is appended. *)
C22_SkipsOverlapDuplicates ==
    (/\ tc_pc = "ok" /\ Len(tc_chunks) = 2
     /\ tc_chunks[1] # <<>> /\ tc_chunks[2] # <<>>) =>
        LET existing == tc_chunks[1]
            new_tokens == tc_chunks[2]
            kept == SelectSeq(new_tokens, LAMBDA t : 2 * t.start >= MergeThreshold2)
        IN  /\ Len(tc_result) >= Len(existing)
            /\ SubSeq(tc_result, 1, Len(existing)) = existing
            /\ SubSeq(tc_result, Len(existing) + 1, Len(tc_result)) = kept

\* a label-loop step of models/tdt/inference.rs that did not return an error
InferenceStepEffect ==
    (pc = "inner" /\ pc' # "error") =>
        \/ UNCHANGED <<states, target, tokens>>
        \/ /\ states' = states + 1
           /\ tokens' = Append(tokens, TokenDuration(target', frame_index,
                                                     DurationsGet(duration_idx')))
           /\ target' # blank_id

\* a loop iteration of models/tdt.rs whose joint run succeeded
LegacyStepEffect ==
    (lg_runs' = lg_runs + 1 /\ lg_pred' # <<>>) =>
        IF lg_pred'[1] = LegacyBlankId
          THEN UNCHANGED <<lg_state_h, lg_state_c, lg_last, lg_tokens>>
          ELSE /\ lg_state_h' = lg_runs' /\ lg_state_c' = lg_runs'
               /\ lg_last' = lg_pred'[1]
               /\ lg_tokens' = Append(lg_tokens,
                                      [token_id |-> lg_pred'[1], frame_index |-> lg_t,
                                       duration |-> lg_pred'[2]])

(* C23: in each step of the decode loop the recurrent states and the target
   change exactly when the predicted token is non-blank: on a blank nothing
   of states, target and output changes; on a non-blank token the states
   become the output states of that joint run, the target becomes the token
   and exactly one triple (token_id, frame, skip) is appended, frame being
   the frame pointer before the step's advance. *)
C23_StateUpdateOnNonBlank ==
    /\ [][InferenceStepEffect]_vars
    /\ [][LegacyStepEffect]_vars

(* C24: the decoder never runs the joint on a padding position: every frame
   position passed to the joint is below the effective length the encoder
   reported, also when the encoder output has more columns than that, and
   the frame pointer never exceeds the effective length. *)
C24_NoJointOnPadding ==
    /\ [][joint_runs' > joint_runs => frame_index < encoded_length]_vars
    /\ [](pc # "idle" => frame_index <= encoded_length)
    /\ [][lg_runs' > lg_runs => lg_t < lg_encoder_len]_vars
    /\ [](lg_pc # "idle" => lg_t <= lg_encoder_len)

\* the smallest 0-based index holding the maximum of a non-empty list
SmallestMaxIndex(v) ==
    CHOOSE i \in 0 .. Len(v) - 1 :
        /\ \A k \in DOMAIN v : v[k] <= v[i + 1]
        /\ \A k \in 0 .. i - 1 : v[k + 1] < v[i + 1]

(* C25: the argmax used by the greedy decoders is stable: whenever several
   text logits, or several duration logits, share the maximum value, the
   smallest index among them is selected as token_id, respectively as
   duration index. *)
C25_StableArgmax ==
    am_pc = "done" =>
        /\ am_token_id = SmallestMaxIndex(TextLogits(am_logits))
        /\ am_duration_idx = SmallestMaxIndex(DurationLogits(am_logits))
        /\ am_legacy_token = SmallestMaxIndex(TextLogits(am_logits))
        /\ am_legacy_duration = SmallestMaxIndex(DurationLogits(am_logits))

FloatLe(a, b) == ~FloatLt(b, a)

\* the cost of the group of segments a + 1 .. b of a chunk, b a graph node:
\* base penalty of the right end node plus segment_penalty(duration, chars)
GroupCost(cfg, segs, node, a, b) ==
    FloatAdd(BasePenalty(node),
             SegmentPenalty(cfg, segs[b].end - segs[a + 1].start,
                            PrefixSum(segs, b) - PrefixSum(segs, a)))

\* the group of segments a + 1 .. b respects both hard limits
GroupAdmissible(cfg, segs, a, b) ==
    /\ segs[b].end - segs[a + 1].start <= cfg.max_duration
    /\ PrefixSum(segs, b) - PrefixSum(segs, a) <= cfg.max_chars

\* the cut sets of the partitions of the segments 1 .. b of a chunk: sets of
\* graph nodes (as segment positions) that hold 0 and b
CutSets(nodes, b) ==
    LET idx == {nodes[k].index : k \in DOMAIN nodes}
    IN  {c \cup {0, b} : c \in SUBSET {i \in idx : 0 < i /\ i < b}}

\* the cut below b in a cut set
CutBelow(cuts, b) == CHOOSE a \in cuts : a < b /\ \A x \in cuts : x < b => x <= a

NodeAt(nodes, b) == nodes[CHOOSE k \in DOMAIN nodes : nodes[k].index = b]

PartitionAdmissible(cfg, segs, cuts) ==
    \A b \in cuts \ {0} : GroupAdmissible(cfg, segs, CutBelow(cuts, b), b)

RECURSIVE PartitionCost(_, _, _, _, _)
\* the sum of the group costs of the partition up to cut b
PartitionCost(cfg, nodes, segs, cuts, b) ==
    IF b = 0 THEN 0
    ELSE LET a == CutBelow(cuts, b)
         IN  FloatAdd(PartitionCost(cfg, nodes, segs, cuts, a),
                      GroupCost(cfg, segs, NodeAt(nodes, b), a, b))

\* the least cost of an admissible partition of the segments 1 .. b
BestCost(cfg, nodes, segs, b) ==
    LET costs == {PartitionCost(cfg, nodes, segs, cuts, b) :
                     cuts \in {c \in CutSets(nodes, b) : PartitionAdmissible(cfg, segs, c)}}
    IN  IF \E m \in costs : m # Infinity
          THEN CHOOSE m \in costs : \A c \in costs : FloatLe(m, c)
          ELSE Infinity

\* the cut set of the segments returned for piece k, relative to the piece
ReturnedCuts(k) ==
    {0} \cup {groups[g][2] - (PieceBounds[k][1] - 1) :
                g \in {h \in DOMAIN groups : /\ groups[h][1] >= PieceBounds[k][1]
                                               /\ groups[h][2] <= PieceBounds[k][2]}}

(* C26: for each pre-split chunk the regrouper returns a minimum-cost
   admissible partition: the returned groups partition the chunk, cut only
   at graph nodes, respect max_duration and max_chars, and their summed cost
   (base penalty of each group's right end node plus its segment penalty) is
   the least among all such partitions; the dp value of every node is that
   least cost of reaching it, so it is final when an edge leaving it is
   used. *)
C26_MinCostPartition ==
    (rpc = "done" /\ segments # <<>>) =>
        /\ GroupsMatch
        /\ \A k \in DOMAIN Pieces :
               LET segs == Pieces[k]
                   nodes == FromSegments(segs)
                   sp == FindShortestPath(segmenter, nodes, segs)
                   admissible == {c \in CutSets(nodes, Len(segs)) :
                                     PartitionAdmissible(segmenter, segs, c)}
               IN  /\ \A j \in DOMAIN nodes :
                          sp.dp[j] = BestCost(segmenter, nodes, segs, nodes[j].index)
                   /\ admissible # {} =>
                          /\ ReturnedCuts(k) \in admissible
                          /\ \A c \in admissible :
                                 FloatLe(PartitionCost(segmenter, nodes, segs, ReturnedCuts(k),
                                                       Len(segs)),
                                         PartitionCost(segmenter, nodes, segs, c, Len(segs)))

(* C27: Segmenter::regroup loses no input: for every non-empty input every
   input segment is a member of exactly one returned segment, in input
   order, so the result is non-empty; also when a segment or an unsplittable
   run exceeds max_duration or max_chars, and when a segment has zero
   duration. *)
C27_NoInputLost ==
    (rpc = "done" /\ segments # <<>>) =>
        /\ GroupsMatch
        /\ regrouped # <<>>
        /\ groups[1][1] = 1
        /\ groups[Len(groups)][2] = Len(segments)
        /\ \A k \in 1 .. Len(groups) - 1 : groups[k + 1][1] = groups[k][2] + 1
        /\ \A k \in DOMAIN groups : groups[k][1] <= groups[k][2]

(* C28: every window the chunker emits for audio with N > chunk_samples,
   the final one included, has at least win_length = 400 samples, so the
   frame count floor((len - 400) / 160) + 1 of every chunk is computed
   without underflow and is at least 1. *)
C28_WindowsAtLeastWin ==
    (cpc = "iter" /\ len > chunk_size) =>
        \A k \in DOMAIN emitted :
            /\ WindowLen(emitted[k]) >= WinLength
            /\ NumFrames(WindowLen(emitted[k])) >= 1

(* C29: greedy_decode called with encoded_length = 0 returns an empty token
   list without running the joint: the loop bound encoded_length - 1 does
   not underflow or wrap, so the call neither panics nor enters the loop. *)
C29_ZeroLengthReturnsEmpty ==
    (pc # "idle" /\ encoded_length = 0) =>
        /\ joint_runs = 0
        /\ pc \in {"while", "done"}
        /\ pc = "done" => result = <<"Ok", <<>>>>

(* C30: no decode state leaks between calls: every call of greedy_decode
   starts from zero states, target = blank_id, frame 0 and an empty output,
   whatever call preceded it on the same model, so a second call on the same
   encoder output with a deterministic joint returns the same list as the
   first. *)
C30_NoStateLeak ==
    /\ [][call_no' > call_no =>
            /\ pc' # "idle" =>
                   /\ states' = 0 /\ target' = blank_id
                   /\ frame_index' = 0 /\ tokens' = <<>>
            /\ lg_pc' # "idle" =>
                   /\ lg_state_h' = 0 /\ lg_state_c' = 0 /\ lg_last' = LegacyBlankId
                   /\ lg_t' = 0 /\ lg_tokens' = <<>>]_vars
    /\ []((call_no = 2 /\ pc \in {"done", "error"}) => result = first_result)
    /\ []((call_no = 2 /\ lg_pc = "done") => lg_tokens = first_result)

\* The second call returned, after a first call that left non-zero states and
\* a non-blank target behind: two tokens and a blank step in each call.
C30_Witness ==
    /\ call_no = 2 /\ pc = "done"
    /\ first_result # <<>> /\ first_result[1] = "Ok" /\ Len(first_result[2]) = 2
    /\ result = first_result
    /\ states = 2 /\ joint_runs = 3

====
